---- MODULE Spec2Model ----
(***************************************************************************)
(* Budget Buddy: the Dashboard aggregation (summary, category breakdown,   *)
(* trend series), the expense list in its immediate-filter and staged-     *)
(* filter variants, and their requests to the external store.              *)
(*                                                                         *)
(* Time is counted in ticks since 1970-01-01T00:00Z, TicksPerDay ticks to  *)
(* a day.  tz is the offset of local time from UTC in ticks.  A record's   *)
(* date is a calendar day (days since 1970-01-01) as the store returns it  *)
(* ("YYYY-MM-DD"), or InvalidDate for a value that does not parse.         *)
(* Months are numbered 1..12 (JavaScript's getMonth() + 1).                *)
(***************************************************************************)
EXTENDS Integers, Sequences, FiniteSets, TLC

VARIABLES
    store,            \* the rows of the external table 'expenses'
    now,              \* the instant new Date() returns
    tz,               \* local time - UTC, in ticks
    user,             \* AuthContext user (its id), or Null
    timePeriod,       \* Dashboard: 'week' | 'month'
    loading,          \* page-level loading flag
    isLoadingBudget,  \* Dashboard
    dashExpenses,     \* Dashboard state `expenses`: {total, thisMonth, thisWeek}
    recentExpenses,   \* Dashboard
    categoryData,     \* Dashboard
    monthlyData,      \* Dashboard
    dashFetches,      \* Dashboard: fetchExpenses invocations suspended at an await
    settingsFetches,  \* Dashboard: fetchUserSettings invocations suspended at their await
    settings,         \* the rows of the external table 'user_settings'
    monthlyBudget,    \* Dashboard
    weeklyBudget,     \* Dashboard
    isEditingBudget,  \* Dashboard
    newBudget,        \* Dashboard: the text of the budget input, None when ''
    upserts,          \* Dashboard: updateMonthlyBudget invocations suspended at their await
    formData,         \* AddExpense: the form
    success,          \* AddExpense
    inserts,          \* AddExpense: handleSubmit invocations suspended at their await
    authLoading,      \* AuthContext loading
    path,             \* the location
    page,             \* the page the layout has mounted in its Outlet, or "none"
    signOuts,         \* AuthContext: signOut invocations suspended at their await
    orphans,          \* fetchExpenses invocations of a Dashboard that has been unmounted
    expenses,         \* list: the working set
    error,            \* list: the error message, "" when there is none
    deleteLoading,    \* list: None or Some(id of the record being deleted)
    expenseToDelete,  \* list: None or Some([id, description]), the open delete dialog
    filters,          \* immediate-filter list: the filter
    filterInputs,     \* staged-filter list: the staging buffer
    sortConfig,       \* staged-filter list: {field, direction} of the displayed order
    appliedFilters,   \* staged-filter list: the filter used for fetching
    applyingFilters,  \* staged-filter list
    editingExpense,   \* staged-filter list: None or Some(record), the open edit modal
    editFormData,     \* staged-filter list: the fields of the edit form
    editLoading,      \* staged-filter list
    listFetches,      \* list: fetchExpenses invocations suspended at their await
    deletes,          \* list: handleDelete invocations suspended at their await
    edits             \* list: handleEditSubmit invocations suspended at their await

dashVars == <<timePeriod, loading, isLoadingBudget, dashExpenses, recentExpenses,
              categoryData, monthlyData, dashFetches, settingsFetches>>
listVars == <<expenses, error, deleteLoading, expenseToDelete, filters, filterInputs, sortConfig,
              appliedFilters, applyingFilters, editingExpense, editFormData,
              editLoading, listFetches, deletes, edits>>
\* The Dashboard's state but `loading`, and the lists' state but `error`.
dashData == <<timePeriod, isLoadingBudget, dashExpenses, recentExpenses, categoryData,
              monthlyData, dashFetches, settingsFetches>>
listData == <<expenses, deleteLoading, expenseToDelete, filters, filterInputs, sortConfig,
              appliedFilters, applyingFilters, editingExpense, editFormData, editLoading,
              listFetches, deletes, edits>>
budgetVars == <<monthlyBudget, weeklyBudget, isEditingBudget, newBudget, upserts>>
addVars == <<formData, success, inserts>>
authVars == <<authLoading, path, page, signOuts, orphans>>
\* The environment, and the state no step of a load or of the lists changes.
envVars == <<store, settings, now, tz, user, authVars, addVars, budgetVars>>
vars == <<envVars, dashVars, listVars>>

Null == "null"

\* A state that is null or a value: None, or Some(value).
None == <<>>
Some(x) == <<x>>

\* ------------------------------------------------------------------ bounds
TicksPerDay == 4
MaxRecords == 3
MaxCatRecords == 3
MaxInFlight == 2
MaxSortRecords == 3
MaxUpserts == 1
MaxOrphans == 1

\* ------------------------------------------------- program constants
WeekWindow == 7
MonthWindow == 6
RecentCount == 5
InvalidDate == -1

Categories ==
    {"Food & Dining", "Transportation", "Shopping", "Entertainment",
     "Bills & Utilities", "Healthcare", "Education", "Travel", "Business", "Other"}

\* ------------------------------------------------------ sequence helpers
RECURSIVE SumAmount(_)
SumAmount(s) == IF s = <<>> THEN 0 ELSE s[1].amount + SumAmount(Tail(s))

RECURSIVE SumTotal(_)
SumTotal(s) == IF s = <<>> THEN 0 ELSE s[1].total + SumTotal(Tail(s))

RemoveAt(s, i) == SubSeq(s, 1, i - 1) \o SubSeq(s, i + 1, Len(s))

ReplaceAt(s, i, x) == [s EXCEPT ![i] = x]

Slice(s, n) == SubSeq(s, 1, IF Len(s) < n THEN Len(s) ELSE n)

\* ------------------------------------------------ the calendar of Date
\* Proleptic Gregorian calendar, days since 1970-01-01 <-> (year, month, day).
CivilFromDays(z) ==
    LET zz  == z + 719468
        era == zz \div 146097
        doe == zz - era * 146097
        yoe == (doe - doe \div 1460 + doe \div 36524 - doe \div 146096) \div 365
        doy == doe - (365 * yoe + yoe \div 4 - yoe \div 100)
        mp  == (5 * doy + 2) \div 153
        d   == doy - (153 * mp + 2) \div 5 + 1
        m   == IF mp < 10 THEN mp + 3 ELSE mp - 9
    IN  [year |-> yoe + era * 400 + (IF m <= 2 THEN 1 ELSE 0), month |-> m, day |-> d]

DaysFromCivil(y, m, d) ==
    LET yy  == IF m <= 2 THEN y - 1 ELSE y
        era == yy \div 400
        yoe == yy - era * 400
        doy == (153 * (IF m > 2 THEN m - 3 ELSE m + 9) + 2) \div 5 + d - 1
        doe == yoe * 365 + yoe \div 4 - yoe \div 100 + doy
    IN  era * 146097 + doe - 719468

\* The local calendar day an instant falls on.
LocalDay(t) == (t + tz) \div TicksPerDay

\* The calendar day of an instant's ISO string (toISOString is in UTC).
UTCDay(t) == t \div TicksPerDay

getDate(t) == CivilFromDays(LocalDay(t)).day
getMonth(t) == CivilFromDays(LocalDay(t)).month
getFullYear(t) == CivilFromDays(LocalDay(t)).year
\* 0 = Sunday; 1970-01-01 was a Thursday.
getDay(t) == (LocalDay(t) + 4) % 7

\* new Date(year, month, day) and setHours(0, 0, 0, 0): local midnight of a day.
LocalMidnight(day) == day * TicksPerDay - tz

\* new Date(y, m - 1 - back, 1): the first of the month `back` months earlier,
\* the month index normalised across the year boundary.
FirstOfMonthBack(y, m, back) ==
    LET idx == y * 12 + (m - 1) - back
    IN  LocalMidnight(DaysFromCivil(idx \div 12, (idx % 12) + 1, 1))

\* d.setDate(d.getDate() - k): k days earlier, same local time of day.
setDateBack(t, k) == t - k * TicksPerDay

\* A comparison that a date which does not parse passes.
DateGEInvalidPasses(date, bound) == date = InvalidDate \/ date * TicksPerDay >= bound

\* new Date(exp.date) >= bound.  "YYYY-MM-DD" parses as midnight UTC; an
\* unparseable string gives NaN, and every comparison with NaN is false.
DateGE(date, bound) == date # InvalidDate /\ date * TicksPerDay >= bound

\* ------------------------------------------------- the store's queries
\* .eq('user_id', uid)
EqUser(rows, uid) == SelectSeq(rows, LAMBDA r : r.user_id = uid)

\* .gte('date', literal): the date column against the calendar day the literal
\* names; a row whose date is no date satisfies no comparison.
GteDate(rows, day) == SelectSeq(rows, LAMBDA r : r.date # InvalidDate /\ r.date >= day)

\* .order('date', { ascending }): rows with equal dates stay in table order.
RECURSIVE InsertByDate(_, _, _)
InsertByDate(sorted, r, ascending) ==
    IF sorted = <<>> THEN <<r>>
    ELSE IF (ascending /\ r.date < sorted[1].date) \/ (~ascending /\ r.date > sorted[1].date)
         THEN <<r>> \o sorted
         ELSE <<sorted[1]>> \o InsertByDate(Tail(sorted), r, ascending)

RECURSIVE OrderByDate(_, _)
OrderByDate(rows, ascending) ==
    IF rows = <<>> THEN <<>>
    ELSE InsertByDate(OrderByDate(SubSeq(rows, 1, Len(rows) - 1), ascending),
                      rows[Len(rows)], ascending)

\* ------------------------------------------------ Dashboard: fetchExpenses
\* startDate of the period query, for the time period the invocation captured.
PeriodStart(period) ==
    IF period = "week"
    THEN setDateBack(now, getDay(now))
    ELSE FirstOfMonthBack(getFullYear(now), getMonth(now), 0)

\* supabase.from('expenses').select('*').eq('user_id', user.id)
\*   .gte('date', startDate.toISOString()).order('date', { ascending: false })
PeriodQuery(uid, period) ==
    OrderByDate(GteDate(EqUser(store, uid), UTCDay(PeriodStart(period))), FALSE)

\* supabase.from('expenses').select('*').eq('user_id', user.id)
AllQuery(uid) == EqUser(store, uid)

\* supabase.from('expenses').select('*').eq('user_id', user.id)
\*   .order('date', { ascending: true })
TrendQuery(uid) == OrderByDate(EqUser(store, uid), TRUE)

FirstDayOfMonth == FirstOfMonthBack(getFullYear(now), getMonth(now), 0)

FirstDayOfWeek == LocalMidnight(LocalDay(setDateBack(now, getDay(now))))

\* The object passed to setExpenses.
Summarize(allExpenses) ==
    [total     |-> SumAmount(allExpenses),
     thisMonth |-> SumAmount(SelectSeq(allExpenses,
                       LAMBDA e : DateGE(e.date, FirstDayOfMonth))),
     thisWeek  |-> SumAmount(SelectSeq(allExpenses,
                       LAMBDA e : DateGE(e.date, FirstDayOfWeek)))]

\* --------------------------------------------- Dashboard: updateCategoryData
\* A categoryMap.set that drops the amount already accumulated for the category.
MapSetOverwrite(map, e) ==
    IF \E i \in 1..Len(map) : map[i].category = e.category
    THEN [i \in 1..Len(map) |->
            IF map[i].category = e.category
            THEN [category |-> e.category, total |-> e.amount]
            ELSE map[i]]
    ELSE Append(map, [category |-> e.category, total |-> e.amount])

\* categoryMap.set(expense.category, current + expense.amount): a Map keeps its
\* keys in the order they were first set.
MapAdd(map, e) ==
    IF \E i \in 1..Len(map) : map[i].category = e.category
    THEN [i \in 1..Len(map) |->
            IF map[i].category = e.category
            THEN [category |-> e.category, total |-> map[i].total + e.amount]
            ELSE map[i]]
    ELSE Append(map, [category |-> e.category, total |-> e.amount])

RECURSIVE CategoryMap(_)
CategoryMap(exps) ==
    IF exps = <<>> THEN <<>>
    ELSE MapAdd(CategoryMap(SubSeq(exps, 1, Len(exps) - 1)), exps[Len(exps)])

\* A sort that puts an entry before the earlier entries of equal total.
RECURSIVE InsertByTotalUnstable(_, _)
InsertByTotalUnstable(sorted, x) ==
    IF sorted = <<>> THEN <<x>>
    ELSE IF x.total >= sorted[1].total
         THEN <<x>> \o sorted
         ELSE <<sorted[1]>> \o InsertByTotalUnstable(Tail(sorted), x)

\* .sort((a, b) => b.total - a.total): Array.prototype.sort is stable.
RECURSIVE InsertByTotal(_, _)
InsertByTotal(sorted, x) ==
    IF sorted = <<>> THEN <<x>>
    ELSE IF x.total > sorted[1].total
         THEN <<x>> \o sorted
         ELSE <<sorted[1]>> \o InsertByTotal(Tail(sorted), x)

RECURSIVE SortByTotal(_)
SortByTotal(entries) ==
    IF entries = <<>> THEN <<>>
    ELSE InsertByTotal(SortByTotal(SubSeq(entries, 1, Len(entries) - 1)),
                       entries[Len(entries)])

\* The array passed to setCategoryData.
updateCategoryData(exps) == SortByTotal(CategoryMap(exps))

\* -------------------------------------------- Dashboard: updateMonthlyTrends
\* `${month} ${dayNumber}`: the short month name and the day of the month.
DayKey(t) == <<getMonth(t), getDate(t)>>

\* `${month} ${date.getFullYear()}`
MonthKey(t) == <<getMonth(t), getFullYear(t)>>

\* for (let i = 6; i >= 0; i--) { date.setDate(date.getDate() - i); ... }
WeekLabels == [k \in 1..WeekWindow |-> DayKey(setDateBack(now, WeekWindow - k))]

\* for (let i = 5; i >= 0; i--) { new Date(now.getFullYear(), now.getMonth() - i, 1) ... }
MonthLabels ==
    [k \in 1..MonthWindow |->
        MonthKey(FirstOfMonthBack(getFullYear(now), getMonth(now), MonthWindow - k))]

\* startOfWeek: six days before now, at local midnight.
StartOfWeek == LocalMidnight(LocalDay(setDateBack(now, WeekWindow - 1)))

\* dataMap.set(key, (dataMap.get(key) || 0) + amount)
DataMapAdd(m, key, amount) ==
    [k \in DOMAIN m \cup {key} |->
        IF k = key THEN (IF key \in DOMAIN m THEN m[key] ELSE 0) + amount ELSE m[k]]

\* allExpenses.forEach of the weekly view.
RECURSIVE WeekDataMap(_, _)
WeekDataMap(m, exps) ==
    IF exps = <<>> THEN m
    ELSE LET e == exps[1]
             t == e.date * TicksPerDay
         IN  WeekDataMap(IF DateGE(e.date, StartOfWeek)
                         THEN DataMapAdd(m, DayKey(t), e.amount)
                         ELSE m,
                         Tail(exps))

\* allExpenses.forEach of the monthly view; the key of an invalid date is
\* "Invalid Date NaN", which is no label.
RECURSIVE MonthDataMap(_, _)
MonthDataMap(m, exps) ==
    IF exps = <<>> THEN m
    ELSE LET e == exps[1]
             t == e.date * TicksPerDay
         IN  MonthDataMap(IF e.date # InvalidDate /\ MonthKey(t) \in DOMAIN m
                          THEN DataMapAdd(m, MonthKey(t), e.amount)
                          ELSE m,
                          Tail(exps))

ZeroMap(labels) == [k \in {labels[i] : i \in 1..Len(labels)} |-> 0]

\* The array passed to setMonthlyData when the query returned rows.
TrendData(allExpenses, period) ==
    LET labels  == IF period = "week" THEN WeekLabels ELSE MonthLabels
        dataMap == IF period = "week"
                   THEN WeekDataMap(ZeroMap(labels), allExpenses)
                   ELSE MonthDataMap(ZeroMap(labels), allExpenses)
    IN  [i \in 1..Len(labels) |-> [month |-> labels[i], total |-> dataMap[labels[i]]]]

\* if (!allExpenses || allExpenses.length === 0) setMonthlyData([])
updateMonthlyTrends(allExpenses, period) ==
    IF allExpenses = <<>> THEN <<>> ELSE TrendData(allExpenses, period)

\* ------------------------------------------------ Dashboard: the component
\* A fetchExpenses invocation suspended at one of its three awaits: the period
\* query, the all-expenses query, the trend query of updateMonthlyTrends.  It
\* holds what its closure captured (user, timePeriod), the store's response to
\* the pending query once it has arrived, and its locals periodExpenses and
\* allExpenses (hasAll is false while allExpenses is unset or null).
NewDashFetch(uid, period) ==
    [uid |-> uid, period |-> period, stage |-> "period", resp |-> "pending",
     data |-> <<>>, periodExpenses |-> <<>>, hasAll |-> FALSE, allExpenses |-> <<>>]

\* A fetchUserSettings invocation suspended at its await, with the user its
\* closure captured and the store's response once it has arrived.
NewSettingsFetch(uid) == [uid |-> uid, resp |-> "pending", data |-> None]

\* useEffect(..., [user, timePeriod])
DashEffect(period) ==
    /\ user # Null
    /\ Len(dashFetches) < MaxInFlight
    /\ Len(settingsFetches) < MaxInFlight
    /\ loading' = TRUE
    /\ dashFetches' = Append(dashFetches, NewDashFetch(user, period))
    /\ settingsFetches' = Append(settingsFetches, NewSettingsFetch(user))

\* The period buttons; they are rendered only when neither flag is set.
SetTimePeriod(p) ==
    /\ ~loading /\ ~isLoadingBudget
    /\ p # timePeriod
    /\ timePeriod' = p
    /\ DashEffect(p)
    /\ UNCHANGED <<envVars, listVars, isLoadingBudget, dashExpenses, recentExpenses,
                   categoryData, monthlyData>>

\* onAuthStateChange: setUser(extractUserData(session?.user)) installs a new
\* user object for the same session, so every effect depending on user reruns.
DashAuthStateChange ==
    /\ DashEffect(timePeriod)
    /\ UNCHANGED <<envVars, listVars, timePeriod, isLoadingBudget, dashExpenses, recentExpenses,
                   categoryData, monthlyData>>

\* The store answers the query an invocation is waiting for.
DashQueryResult(f) ==
    IF f.stage = "period" THEN PeriodQuery(f.uid, f.period)
    ELSE IF f.stage = "all" THEN AllQuery(f.uid)
    ELSE TrendQuery(f.uid)

DashStoreRespond(i, ok) ==
    /\ i \in 1..Len(dashFetches)
    /\ dashFetches[i].resp = "pending"
    /\ dashFetches' = ReplaceAt(dashFetches, i,
            [dashFetches[i] EXCEPT !.resp = IF ok THEN "ok" ELSE "error",
                                   !.data = IF ok THEN DashQueryResult(dashFetches[i])
                                            ELSE <<>>])
    /\ UNCHANGED <<envVars, listVars, timePeriod, loading, isLoadingBudget, dashExpenses,
                   recentExpenses, categoryData, monthlyData, settingsFetches>>

\* fetchExpenses resumes after the period query: an error is thrown to the
\* catch block and the finally block clears loading.
ResumePeriod(i) ==
    /\ i \in 1..Len(dashFetches)
    /\ dashFetches[i].stage = "period"
    /\ dashFetches[i].resp # "pending"
    /\ IF dashFetches[i].resp = "error"
       THEN /\ loading' = FALSE
            /\ dashFetches' = RemoveAt(dashFetches, i)
       ELSE /\ dashFetches' = ReplaceAt(dashFetches, i,
                    [dashFetches[i] EXCEPT !.stage = "all", !.resp = "pending",
                                           !.data = <<>>,
                                           !.periodExpenses = dashFetches[i].data])
            /\ UNCHANGED loading
    /\ UNCHANGED <<envVars, listVars, timePeriod, isLoadingBudget, dashExpenses, recentExpenses,
                   categoryData, monthlyData, settingsFetches>>

\* fetchExpenses resumes after the all-expenses query (its error is not read:
\* allExpenses is then null), sets the summary, the recent list and the
\* category data, and calls updateMonthlyTrends, which issues the trend query.
ResumeAll(i) ==
    /\ i \in 1..Len(dashFetches)
    /\ dashFetches[i].stage = "all"
    /\ dashFetches[i].resp # "pending"
    /\ dashExpenses' = IF dashFetches[i].resp = "ok"
                       THEN Summarize(dashFetches[i].data)
                       ELSE dashExpenses
    /\ recentExpenses' = Slice(dashFetches[i].periodExpenses, RecentCount)
    /\ categoryData' = updateCategoryData(dashFetches[i].periodExpenses)
    /\ dashFetches' = ReplaceAt(dashFetches, i,
            [dashFetches[i] EXCEPT !.stage = "trend", !.resp = "pending", !.data = <<>>,
                                   !.hasAll = (dashFetches[i].resp = "ok"),
                                   !.allExpenses = dashFetches[i].data])
    /\ UNCHANGED <<envVars, listVars, timePeriod, loading, isLoadingBudget, monthlyData,
                   settingsFetches>>

\* updateMonthlyTrends resumes after the trend query and sets monthlyData; then
\* fetchExpenses' finally block clears loading.
ResumeTrend(i) ==
    /\ i \in 1..Len(dashFetches)
    /\ dashFetches[i].stage = "trend"
    /\ dashFetches[i].resp # "pending"
    /\ monthlyData' = IF dashFetches[i].resp = "ok"
                      THEN updateMonthlyTrends(dashFetches[i].data, dashFetches[i].period)
                      ELSE <<>>
    /\ loading' = FALSE
    /\ dashFetches' = RemoveAt(dashFetches, i)
    /\ UNCHANGED <<envVars, listVars, timePeriod, isLoadingBudget, dashExpenses, recentExpenses,
                   categoryData, settingsFetches>>

\* .from('user_settings').select('monthly_budget, weekly_budget')
\*   .eq('user_id', uid).single(): the row, or the error PGRST116 when there is
\* none.
SettingsQuery(uid) == SelectSeq(settings, LAMBDA r : r.user_id = uid)

\* The store answers a settings query.
SettingsStoreRespond(i, ok) ==
    /\ i \in 1..Len(settingsFetches)
    /\ settingsFetches[i].resp = "pending"
    /\ LET rows == SettingsQuery(settingsFetches[i].uid)
       IN  settingsFetches' = ReplaceAt(settingsFetches, i,
               [settingsFetches[i] EXCEPT
                   !.resp = IF ~ok THEN "error"
                            ELSE IF Len(rows) = 1 THEN "ok" ELSE "PGRST116",
                   !.data = IF ok /\ Len(rows) = 1 THEN Some(rows[1]) ELSE None])
    /\ UNCHANGED <<envVars, listVars, timePeriod, loading, isLoadingBudget, dashExpenses,
                   recentExpenses, categoryData, monthlyData, dashFetches>>

\* if (data?.field) setBudget(parseFloat(data.field)): a budget of 0 is falsy
\* and leaves the state as it is.
FetchedBudget(f, field, current) ==
    IF f.resp = "ok" /\ f.data[1][field] # 0 THEN f.data[1][field] ELSE current

\* fetchUserSettings resumes after its await: it sets the budgets the row
\* holds (none after an error or without a row) and its finally block clears
\* isLoadingBudget.
ResumeSettings(i) ==
    /\ i \in 1..Len(settingsFetches)
    /\ settingsFetches[i].resp # "pending"
    /\ monthlyBudget' = FetchedBudget(settingsFetches[i], "monthly_budget", monthlyBudget)
    /\ weeklyBudget' = FetchedBudget(settingsFetches[i], "weekly_budget", weeklyBudget)
    /\ settingsFetches' = RemoveAt(settingsFetches, i)
    /\ isLoadingBudget' = FALSE
    /\ UNCHANGED <<store, settings, now, tz, user, authVars, addVars, listVars,
                   isEditingBudget, newBudget, upserts, timePeriod, loading, dashExpenses,
                   recentExpenses, categoryData, monthlyData, dashFetches>>

\* One load: the steps of the invocations in flight.
NextLoad ==
    \/ \E i \in 1..MaxInFlight, ok \in BOOLEAN : DashStoreRespond(i, ok)
    \/ \E i \in 1..MaxInFlight : ResumePeriod(i)
    \/ \E i \in 1..MaxInFlight : ResumeAll(i)
    \/ \E i \in 1..MaxInFlight : ResumeTrend(i)

NextDash ==
    \/ \E p \in {"week", "month"} : SetTimePeriod(p)
    \/ DashAuthStateChange
    \/ \E i \in 1..MaxInFlight, ok \in BOOLEAN : SettingsStoreRespond(i, ok)
    \/ \E i \in 1..MaxInFlight : ResumeSettings(i)
    \/ NextLoad

\* The same with a store that answers every query.
NextDashOk ==
    \/ \E p \in {"week", "month"} : SetTimePeriod(p)
    \/ DashAuthStateChange
    \/ \E i \in 1..MaxInFlight : SettingsStoreRespond(i, TRUE)
    \/ \E i \in 1..MaxInFlight : ResumeSettings(i)
    \/ \E i \in 1..MaxInFlight : DashStoreRespond(i, TRUE)
    \/ \E i \in 1..MaxInFlight : ResumePeriod(i)
    \/ \E i \in 1..MaxInFlight : ResumeAll(i)
    \/ \E i \in 1..MaxInFlight : ResumeTrend(i)

\* ---------------------------------------------- Dashboard: the budget card
\* parseFloat of the text of a number input
parseFloat(s) == s[1]

\* budgetUsage and remainingBudget read the selected period's figures.
BudgetSpent == IF timePeriod = "week" THEN dashExpenses.thisWeek ELSE dashExpenses.thisMonth

BudgetLimit == IF timePeriod = "week" THEN weeklyBudget ELSE monthlyBudget

\* The result of an arithmetic expression: Some(n), or NaN when it is not a
\* number.
NaN == <<>>

\* Math.round(a / b) for a >= 0, b > 0.
RoundDiv(a, b) == (2 * a + b) \div (2 * b)

\* Math.min(Math.round((spent / budget) * 100), 100): 0 / 0 is NaN and stays
\* NaN through round and min; spent / 0 with spent > 0 is Infinity.
budgetUsage ==
    IF BudgetLimit = 0
    THEN IF BudgetSpent = 0 THEN NaN ELSE Some(100)
    ELSE IF RoundDiv(100 * BudgetSpent, BudgetLimit) < 100
         THEN Some(RoundDiv(100 * BudgetSpent, BudgetLimit))
         ELSE Some(100)

\* Math.max(budget - spent, 0)
remainingBudget == IF BudgetLimit - BudgetSpent > 0 THEN BudgetLimit - BudgetSpent ELSE 0

\* The budget card is rendered only when neither flag is set.
BudgetCardShown == ~loading /\ ~isLoadingBudget

\* The 'Set Limit' button.
SetLimitClick ==
    /\ BudgetCardShown
    /\ isEditingBudget' = TRUE
    /\ newBudget' = Some(BudgetLimit)
    /\ UNCHANGED <<store, settings, now, tz, user, authVars, addVars, listVars, dashVars,
                   monthlyBudget, weeklyBudget, upserts>>

\* onChange of the budget input: setNewBudget(e.target.value)
setNewBudget(v) ==
    /\ BudgetCardShown
    /\ isEditingBudget
    /\ newBudget' = v
    /\ UNCHANGED <<store, settings, now, tz, user, authVars, addVars, listVars, dashVars,
                   monthlyBudget, weeklyBudget, isEditingBudget, upserts>>

\* Constraint validation of the budget form: <input type="number" min="0">,
\* not required.
BudgetFormValid == IF newBudget = None THEN TRUE ELSE parseFloat(newBudget) >= 0

\* if (isNaN(budget) || budget < 0) return
BudgetAccepted(budget) == budget # None /\ parseFloat(budget) >= 0

\* The row updateMonthlyBudget sends: the entered budget for the selected
\* period, the local state for the other one.
UpsertRow(uid, period, budget) ==
    [user_id |-> uid,
     monthly_budget |-> IF period = "month" THEN budget ELSE monthlyBudget,
     weekly_budget |-> IF period = "week" THEN budget ELSE weeklyBudget]

\* updateMonthlyBudget up to its await; a budget that is not accepted returns
\* without a request.
updateMonthlyBudget ==
    /\ BudgetCardShown
    /\ isEditingBudget
    /\ BudgetFormValid
    /\ user # Null
    /\ BudgetAccepted(newBudget)
    /\ Len(upserts) < MaxUpserts
    /\ upserts' = Append(upserts,
           [period |-> timePeriod, budget |-> parseFloat(newBudget), resp |-> "pending",
            row |-> UpsertRow(user, timePeriod, parseFloat(newBudget))])
    /\ UNCHANGED <<store, settings, now, tz, user, authVars, addVars, listVars, dashVars,
                   monthlyBudget, weeklyBudget, isEditingBudget, newBudget>>

\* .upsert(row, { onConflict: 'user_id' }): the row replaces the one of the
\* same user_id, or is added when there is none.
Upsert(rows, row) ==
    IF \E k \in 1..Len(rows) : rows[k].user_id = row.user_id
    THEN [k \in 1..Len(rows) |-> IF rows[k].user_id = row.user_id THEN row ELSE rows[k]]
    ELSE Append(rows, row)

\* The store answers an upsert.
UpsertStoreRespond(i, ok) ==
    /\ i \in 1..Len(upserts)
    /\ upserts[i].resp = "pending"
    /\ upserts' = ReplaceAt(upserts, i, [upserts[i] EXCEPT !.resp = IF ok THEN "ok" ELSE "error"])
    /\ settings' = IF ok THEN Upsert(settings, upserts[i].row) ELSE settings
    /\ UNCHANGED <<store, now, tz, user, authVars, addVars, listVars, dashVars,
                   monthlyBudget, weeklyBudget, isEditingBudget, newBudget>>

\* updateMonthlyBudget resumes after its await, with the timePeriod and budget
\* of its closure; an error is only logged.
ResumeUpsert(i) ==
    /\ i \in 1..Len(upserts)
    /\ upserts[i].resp # "pending"
    /\ upserts' = RemoveAt(upserts, i)
    /\ weeklyBudget' = IF upserts[i].resp = "ok" /\ upserts[i].period = "week"
                       THEN upserts[i].budget ELSE weeklyBudget
    /\ monthlyBudget' = IF upserts[i].resp = "ok" /\ upserts[i].period # "week"
                        THEN upserts[i].budget ELSE monthlyBudget
    /\ isEditingBudget' = IF upserts[i].resp = "ok" THEN FALSE ELSE isEditingBudget
    /\ UNCHANGED <<store, settings, now, tz, user, authVars, addVars, listVars, dashVars,
                   newBudget>>

\* What is typed into the budget input.
BudgetInputs == {None, Some(-5), Some(0), Some(30), Some(2000)}

\* The Dashboard with its budget card during and after one load, the store
\* answering every expense query.
NextBudget ==
    \/ \E i \in 1..MaxInFlight, ok \in BOOLEAN : SettingsStoreRespond(i, ok)
    \/ \E i \in 1..MaxInFlight : ResumeSettings(i)
    \/ \E i \in 1..MaxInFlight : DashStoreRespond(i, TRUE)
    \/ \E i \in 1..MaxInFlight : ResumePeriod(i)
    \/ \E i \in 1..MaxInFlight : ResumeAll(i)
    \/ \E i \in 1..MaxInFlight : ResumeTrend(i)
    \/ SetLimitClick
    \/ \E v \in BudgetInputs : setNewBudget(v)
    \/ updateMonthlyBudget
    \/ \E i \in 1..MaxUpserts, ok \in BOOLEAN : UpsertStoreRespond(i, ok)
    \/ \E i \in 1..MaxUpserts : ResumeUpsert(i)

\* ------------------------------------------------- the lists: fetchExpenses
\* A filter field of a form input is '' (None) or a value (Some(v)); the
\* category field is '' or a label.
EmptyFilters ==
    [category |-> "", startDate |-> None, endDate |-> None,
     minAmount |-> None, maxAmount |-> None]

\* query.eq('category', c)
EqCategory(rows, c) == SelectSeq(rows, LAMBDA r : r.category = c)

\* query.lte('date', day)
LteDate(rows, day) == SelectSeq(rows, LAMBDA r : r.date # InvalidDate /\ r.date <= day)

AmountGt(rows, v) == SelectSeq(rows, LAMBDA r : r.amount > v)

\* query.gte('amount', v)
AmountGte(rows, v) == SelectSeq(rows, LAMBDA r : r.amount >= v)

\* query.lte('amount', v)
AmountLte(rows, v) == SelectSeq(rows, LAMBDA r : r.amount <= v)

\* The query fetchExpenses builds: the user's rows, newest first, narrowed by
\* every filter field that is not ''.
ListQuery(uid, f) ==
    LET q0 == OrderByDate(EqUser(store, uid), FALSE)
        q1 == IF f.category # "" THEN EqCategory(q0, f.category) ELSE q0
        q2 == IF f.startDate # None THEN GteDate(q1, f.startDate[1]) ELSE q1
        q3 == IF f.endDate # None THEN LteDate(q2, f.endDate[1]) ELSE q2
        q4 == IF f.minAmount # None THEN AmountGte(q3, parseFloat(f.minAmount)) ELSE q3
    IN  IF f.maxAmount # None THEN AmountLte(q4, parseFloat(f.maxAmount)) ELSE q4

FetchFailed == "Failed to fetch expenses"
DeleteFailed == "Failed to delete expense"
UpdateFailed == "Failed to update expense"

\* A fetchExpenses invocation suspended at `await query`, with the user and the
\* filter its closure captured.
NewListFetch(uid, f) == [uid |-> uid, filters |-> f, resp |-> "pending", data |-> <<>>]

\* useEffect(() => fetchExpenses(), [user, filters]) up to the await
ListEffect(f) ==
    /\ user # Null
    /\ Len(listFetches) < MaxInFlight
    /\ loading' = TRUE
    /\ error' = ""
    /\ listFetches' = Append(listFetches, NewListFetch(user, f))

\* The store answers a list query.
ListStoreRespond(i, ok) ==
    /\ i \in 1..Len(listFetches)
    /\ listFetches[i].resp = "pending"
    /\ listFetches' = ReplaceAt(listFetches, i,
            [listFetches[i] EXCEPT !.resp = IF ok THEN "ok" ELSE "error",
                                   !.data = IF ok THEN ListQuery(listFetches[i].uid,
                                                                 listFetches[i].filters)
                                            ELSE <<>>])
    /\ UNCHANGED <<envVars, dashVars, expenses, error, deleteLoading, expenseToDelete,
                   filters, filterInputs, sortConfig, appliedFilters, applyingFilters,
                   editingExpense, editFormData, editLoading, deletes, edits>>

\* What fetchExpenses does after its await, up to the finally block.
FetchOutcome(i) ==
    /\ i \in 1..Len(listFetches)
    /\ listFetches[i].resp # "pending"
    /\ IF listFetches[i].resp = "ok"
       THEN expenses' = listFetches[i].data /\ UNCHANGED error
       ELSE error' = FetchFailed /\ UNCHANGED expenses
    /\ loading' = FALSE
    /\ listFetches' = RemoveAt(listFetches, i)

\* ------------------------------------------- the immediate-filter list
\* fetchExpenses resumes after its await.
ResumeFetch(i) ==
    /\ FetchOutcome(i)
    /\ UNCHANGED <<envVars, timePeriod, isLoadingBudget, dashExpenses, recentExpenses,
                   categoryData, monthlyData, dashFetches, settingsFetches,
                   deleteLoading, expenseToDelete, filters, filterInputs, sortConfig,
                   appliedFilters, applyingFilters, editingExpense, editFormData,
                   editLoading, deletes, edits>>

\* A filter input changes: setFilters installs a new object and the effect
\* issues a fetch.  The inputs are rendered only when loading is false.
handleFilterChange(name, value) ==
    /\ ~loading
    /\ filters[name] # value
    /\ filters' = [filters EXCEPT ![name] = value]
    /\ ListEffect(filters')
    /\ UNCHANGED <<envVars, timePeriod, isLoadingBudget, dashExpenses, recentExpenses,
                   categoryData, monthlyData, dashFetches, settingsFetches,
                   expenses, deleteLoading, expenseToDelete, filterInputs, sortConfig,
                   appliedFilters, applyingFilters, editingExpense, editFormData,
                   editLoading, deletes, edits>>

clearFilters ==
    /\ ~loading
    /\ filters' = EmptyFilters
    /\ ListEffect(filters')
    /\ UNCHANGED <<envVars, timePeriod, isLoadingBudget, dashExpenses, recentExpenses,
                   categoryData, monthlyData, dashFetches, settingsFetches,
                   expenses, deleteLoading, expenseToDelete, filterInputs, sortConfig,
                   appliedFilters, applyingFilters, editingExpense, editFormData,
                   editLoading, deletes, edits>>

\* ------------------------------------------------ the lists: the summary
\* The sum of the amounts of every row of the user, loaded or not.
totalOfAllRows == SumAmount(EqUser(store, user))

\* expenses.reduce((sum, expense) => sum + parseFloat(expense.amount.toString()), 0)
totalExpenses == SumAmount(expenses)

\* formatCurrency(num / den): the quotient in cents, rounded to two fraction
\* digits, halves away from zero (amounts are not negative).
formatCurrency(num, den) == (200 * num + den) \div (2 * den)

\* The three figures of the summary section, in cents; the literal '$0.00' is
\* shown for the average of an empty list.
ListSummary ==
    [count   |-> Len(expenses),
     sum     |-> formatCurrency(totalExpenses, 1),
     average |-> IF Len(expenses) > 0
                 THEN formatCurrency(totalExpenses, Len(expenses))
                 ELSE 0]

\* ---------------------------------------------- the staged-filter list
\* fetchExpenses resumes after its await; its finally block also clears
\* applyingFilters.
StagedResumeFetch(i) ==
    /\ FetchOutcome(i)
    /\ applyingFilters' = FALSE
    /\ UNCHANGED <<envVars, timePeriod, isLoadingBudget, dashExpenses, recentExpenses,
                   categoryData, monthlyData, dashFetches, settingsFetches,
                   deleteLoading, expenseToDelete, filters, filterInputs, sortConfig,
                   appliedFilters, editingExpense, editFormData, editLoading,
                   deletes, edits>>

\* JSON.stringify of a filter object: the values of its five keys in the order
\* the object was created with, which the spread in the handlers keeps.
JSONstringify(f) == <<f.category, f.startDate, f.endDate, f.minAmount, f.maxAmount>>

\* A comparison of the category fields alone.
hasStagedCategoryChange == filterInputs.category # appliedFilters.category

\* JSON.stringify(filterInputs) !== JSON.stringify(appliedFilters)
hasUnappliedChanges == JSONstringify(filterInputs) # JSONstringify(appliedFilters)

\* A filter input handler that applies the change at once.
handleFilterInputChangeImmediate(name, value) ==
    /\ ~loading
    /\ filterInputs[name] # value
    /\ filterInputs' = [filterInputs EXCEPT ![name] = value]
    /\ appliedFilters' = filterInputs'
    /\ ListEffect(appliedFilters')
    /\ UNCHANGED <<envVars, timePeriod, isLoadingBudget, dashExpenses, recentExpenses,
                   categoryData, monthlyData, dashFetches, settingsFetches,
                   expenses, deleteLoading, expenseToDelete, filters, sortConfig,
                   applyingFilters, editingExpense, editFormData, editLoading,
                   deletes, edits>>

\* A filter input of the staged-filter list changes: setFilterInputs only.
handleFilterInputChange(name, value) ==
    /\ ~loading
    /\ filterInputs[name] # value
    /\ filterInputs' = [filterInputs EXCEPT ![name] = value]
    /\ UNCHANGED <<envVars, dashVars, expenses, error, deleteLoading, expenseToDelete,
                   filters, sortConfig, appliedFilters, applyingFilters,
                   editingExpense, editFormData, editLoading, listFetches, deletes, edits>>

\* The Apply button (disabled={!hasUnappliedChanges || applyingFilters}):
\* setAppliedFilters(filterInputs) installs a different filter, so the effect
\* [user, appliedFilters] issues a fetch.
applyFilters ==
    /\ ~loading
    /\ hasUnappliedChanges
    /\ ~applyingFilters
    /\ applyingFilters' = TRUE
    /\ appliedFilters' = filterInputs
    /\ ListEffect(appliedFilters')
    /\ UNCHANGED <<envVars, timePeriod, isLoadingBudget, dashExpenses, recentExpenses,
                   categoryData, monthlyData, dashFetches, settingsFetches,
                   expenses, deleteLoading, expenseToDelete, filters, filterInputs,
                   sortConfig, editingExpense, editFormData, editLoading, deletes, edits>>

\* A Clear button that empties the staging buffer only.
ClearStagingOnly ==
    /\ ~loading
    /\ ~applyingFilters
    /\ filterInputs # EmptyFilters
    /\ filterInputs' = EmptyFilters
    /\ UNCHANGED <<envVars, dashVars, expenses, error, deleteLoading, expenseToDelete,
                   filters, sortConfig, appliedFilters, applyingFilters,
                   editingExpense, editFormData, editLoading, listFetches, deletes, edits>>

\* The Clear All button (disabled={applyingFilters}) of the staged-filter list:
\* clearFilters installs a new empty object as staging buffer and as applied
\* filter, so the effect issues a fetch whatever the applied filter was.
StagedClearFilters ==
    /\ ~loading
    /\ ~applyingFilters
    /\ filterInputs' = EmptyFilters
    /\ applyingFilters' = TRUE
    /\ appliedFilters' = EmptyFilters
    /\ ListEffect(appliedFilters')
    /\ UNCHANGED <<envVars, timePeriod, isLoadingBudget, dashExpenses, recentExpenses,
                   categoryData, monthlyData, dashFetches, settingsFetches,
                   expenses, deleteLoading, expenseToDelete, filters, sortConfig,
                   editingExpense, editFormData, editLoading, deletes, edits>>

\* Controls that ignore deleteLoading.
ControlsAlwaysEnabled == TRUE

\* disabled={!!deleteLoading} on the row buttons and on the close, cancel and
\* confirm buttons of the delete dialog.
DeleteControlsEnabled == deleteLoading = None

\* The delete button of row k: setExpenseToDelete({id, description}).
DeleteClick(k) ==
    /\ ~loading
    /\ DeleteControlsEnabled
    /\ k \in 1..Len(expenses)
    /\ expenseToDelete' = Some([id |-> expenses[k].id,
                                description |-> IF expenses[k].description = ""
                                                THEN "this expense"
                                                ELSE expenses[k].description])
    /\ UNCHANGED <<envVars, dashVars, expenses, error, deleteLoading, filters,
                   filterInputs, sortConfig, appliedFilters, applyingFilters, editingExpense,
                   editFormData, editLoading, listFetches, deletes, edits>>

\* Cancel and close buttons of the delete dialog: setExpenseToDelete(null).
DeleteCancel ==
    /\ ~loading
    /\ expenseToDelete # None
    /\ DeleteControlsEnabled
    /\ expenseToDelete' = None
    /\ UNCHANGED <<envVars, dashVars, expenses, error, deleteLoading, filters,
                   filterInputs, sortConfig, appliedFilters, applyingFilters, editingExpense,
                   editFormData, editLoading, listFetches, deletes, edits>>

\* The confirm button of the delete dialog: handleDelete(expenseToDelete.id) up
\* to its await.  The invocation keeps the `expenses` of the render it was
\* created in.
handleDelete ==
    /\ ~loading
    /\ expenseToDelete # None
    /\ DeleteControlsEnabled
    /\ deleteLoading' = Some(expenseToDelete[1].id)
    /\ deletes' = Append(deletes, [id |-> expenseToDelete[1].id, uid |-> user,
                                   expenses |-> expenses, resp |-> "pending"])
    /\ UNCHANGED <<envVars, dashVars, expenses, error, expenseToDelete, filters,
                   filterInputs, sortConfig, appliedFilters, applyingFilters, editingExpense,
                   editFormData, editLoading, listFetches, edits>>

\* The store answers a delete: .delete().eq('id', id).eq('user_id', uid)
DeleteStoreRespond(i, ok) ==
    /\ i \in 1..Len(deletes)
    /\ deletes[i].resp = "pending"
    /\ deletes' = ReplaceAt(deletes, i,
            [deletes[i] EXCEPT !.resp = IF ok THEN "ok" ELSE "error"])
    /\ store' = IF ok
                THEN SelectSeq(store, LAMBDA r : ~(r.id = deletes[i].id
                                                   /\ r.user_id = deletes[i].uid))
                ELSE store
    /\ UNCHANGED <<settings, now, tz, user, authVars, addVars, budgetVars, dashVars,
                   expenses, error, deleteLoading,
                   expenseToDelete, filters, filterInputs, sortConfig, appliedFilters,
                   applyingFilters, editingExpense, editFormData, editLoading,
                   listFetches, edits>>

\* The working set an optimistic handleDelete would leave.
ExpensesAfterDeleteOptimistic(d) == SelectSeq(d.expenses, LAMBDA e : e.id # d.id)

\* The working set handleDelete leaves: expenses.filter(e => e.id !== id) once
\* the store has confirmed, untouched when the request failed.
ExpensesAfterDelete(d) ==
    IF d.resp = "ok" THEN SelectSeq(d.expenses, LAMBDA e : e.id # d.id) ELSE expenses

\* handleDelete resumes after its await.
ResumeDelete(i) ==
    /\ i \in 1..Len(deletes)
    /\ deletes[i].resp # "pending"
    /\ expenses' = ExpensesAfterDelete(deletes[i])
    /\ IF deletes[i].resp = "ok"
       THEN expenseToDelete' = None /\ UNCHANGED error
       ELSE error' = DeleteFailed /\ UNCHANGED expenseToDelete
    /\ deleteLoading' = None
    /\ deletes' = RemoveAt(deletes, i)
    /\ UNCHANGED <<envVars, dashVars, filters, filterInputs, sortConfig, appliedFilters,
                   applyingFilters, editingExpense, editFormData, editLoading,
                   listFetches, edits>>

EmptyEditForm == [description |-> "", amount |-> None, category |-> "", date |-> None]

\* The edit button of row k: handleEditClick(expense).
handleEditClick(k) ==
    /\ ~loading
    /\ DeleteControlsEnabled
    /\ k \in 1..Len(expenses)
    /\ editingExpense' = Some(expenses[k])
    /\ editFormData' = [description |-> expenses[k].description,
                        amount |-> Some(expenses[k].amount),
                        category |-> expenses[k].category,
                        date |-> Some(expenses[k].date)]
    /\ UNCHANGED <<envVars, dashVars, expenses, error, deleteLoading, expenseToDelete,
                   filters, filterInputs, sortConfig, appliedFilters, applyingFilters,
                   editLoading, listFetches, deletes, edits>>

\* An input of the edit form changes.
handleEditFormChange(name, value) ==
    /\ ~loading
    /\ editingExpense # None
    /\ editFormData[name] # value
    /\ editFormData' = [editFormData EXCEPT ![name] = value]
    /\ UNCHANGED <<envVars, dashVars, expenses, error, deleteLoading, expenseToDelete,
                   filters, filterInputs, sortConfig, appliedFilters, applyingFilters,
                   editingExpense, editLoading, listFetches, deletes, edits>>

\* Cancel and close buttons of the edit modal: setEditingExpense(null).
EditCancel ==
    /\ ~loading
    /\ editingExpense # None
    /\ ~editLoading
    /\ editingExpense' = None
    /\ UNCHANGED <<envVars, dashVars, expenses, error, deleteLoading, expenseToDelete,
                   filters, filterInputs, sortConfig, appliedFilters, applyingFilters,
                   editFormData, editLoading, listFetches, deletes, edits>>

\* The form's required fields are filled in and the amount is at least 0.01.
EditFormValid ==
    /\ editFormData.description # ""
    /\ editFormData.amount # None /\ parseFloat(editFormData.amount) > 0
    /\ editFormData.category # ""
    /\ editFormData.date # None

\* The modal's form is submitted: handleEditSubmit up to its await.
handleEditSubmit ==
    /\ ~loading
    /\ editingExpense # None
    /\ ~editLoading
    /\ user # Null
    /\ EditFormValid
    /\ editLoading' = TRUE
    /\ edits' = Append(edits, [id |-> editingExpense[1].id, uid |-> user,
                               form |-> editFormData, expenses |-> expenses,
                               resp |-> "pending"])
    /\ UNCHANGED <<envVars, dashVars, expenses, error, deleteLoading, expenseToDelete,
                   filters, filterInputs, sortConfig, appliedFilters, applyingFilters,
                   editingExpense, editFormData, listFetches, deletes>>

\* String.prototype.trim on the descriptions the model uses
trim(s) == IF s = " Taxi " THEN "Taxi" ELSE s

\* The store answers an update: .update({...}).eq('id', id).eq('user_id', uid)
\* succeeds also when no row matches.
EditStoreRespond(i, ok) ==
    /\ i \in 1..Len(edits)
    /\ edits[i].resp = "pending"
    /\ edits' = ReplaceAt(edits, i, [edits[i] EXCEPT !.resp = IF ok THEN "ok" ELSE "error"])
    /\ store' = IF ok
                THEN [k \in 1..Len(store) |->
                        IF store[k].id = edits[i].id /\ store[k].user_id = edits[i].uid
                        THEN [store[k] EXCEPT
                                !.description = trim(edits[i].form.description),
                                !.amount = parseFloat(edits[i].form.amount),
                                !.category = edits[i].form.category,
                                !.date = edits[i].form.date[1]]
                        ELSE store[k]]
                ELSE store
    /\ UNCHANGED <<settings, now, tz, user, authVars, addVars, budgetVars, dashVars,
                   expenses, error, deleteLoading,
                   expenseToDelete, filters, filterInputs, sortConfig, appliedFilters,
                   applyingFilters, editingExpense, editFormData, editLoading,
                   listFetches, deletes>>

\* The working set handleEditSubmit leaves: expenses.map(...) merging the form
\* into the record once the store has confirmed, untouched when the request
\* failed.
ExpensesAfterEdit(e) ==
    IF e.resp = "ok"
    THEN [k \in 1..Len(e.expenses) |->
            IF e.expenses[k].id = e.id
            THEN [e.expenses[k] EXCEPT !.description = e.form.description,
                                       !.amount = parseFloat(e.form.amount),
                                       !.category = e.form.category,
                                       !.date = e.form.date[1]]
            ELSE e.expenses[k]]
    ELSE expenses

\* handleEditSubmit resumes after its await.
ResumeEdit(i) ==
    /\ i \in 1..Len(edits)
    /\ edits[i].resp # "pending"
    /\ expenses' = ExpensesAfterEdit(edits[i])
    /\ IF edits[i].resp = "ok"
       THEN editingExpense' = None /\ editFormData' = EmptyEditForm /\ UNCHANGED error
       ELSE error' = UpdateFailed /\ UNCHANGED <<editingExpense, editFormData>>
    /\ editLoading' = FALSE
    /\ edits' = RemoveAt(edits, i)
    /\ UNCHANGED <<envVars, dashVars, deleteLoading, expenseToDelete, filters,
                   filterInputs, sortConfig, appliedFilters, applyingFilters, listFetches, deletes>>

\* ------------------------------ the staged-filter list: the displayed order
\* sortConfig after mounting: newest first.
DefaultSort == [field |-> "date", direction |-> "desc"]

\* The options of the sort dropdown.
SortOptions ==
    {[field |-> f, direction |-> d] :
        f \in {"date", "amount", "category", "description"}, d \in {"asc", "desc"}}

\* The sort dropdown: setSortConfig({field, direction}).
setSortConfig(cfg) ==
    /\ ~loading
    /\ cfg # sortConfig
    /\ sortConfig' = cfg
    /\ UNCHANGED <<envVars, dashVars, expenses, error, deleteLoading, expenseToDelete,
                   filters, filterInputs, appliedFilters, applyingFilters,
                   editingExpense, editFormData, editLoading, listFetches, deletes, edits>>

\* The UTF-16 code units of the texts the sorted tables use.
CodeUnits(s) ==
    CASE s = "apple"  -> <<97, 112, 112, 108, 101>>
      [] s = "Bus"    -> <<66, 117, 115>>
      [] s = "Taxi"   -> <<84, 97, 120, 105>>
      [] s = "taxi"   -> <<116, 97, 120, 105>>
      [] s = "Other"  -> <<79, 116, 104, 101, 114>>
      [] s = "other"  -> <<111, 116, 104, 101, 114>>
      [] s = "Travel" -> <<84, 114, 97, 118, 101, 108>>

\* String.prototype.toLowerCase on code units: A..Z become a..z.
toLowerCase(u) == [i \in 1..Len(u) |-> IF u[i] \in 65..90 THEN u[i] + 32 ELSE u[i]]

\* a < b on strings: the first differing code unit decides, a proper prefix is
\* smaller.
RECURSIVE StrLess(_, _)
StrLess(a, b) ==
    IF b = <<>> THEN FALSE
    ELSE IF a = <<>> THEN TRUE
    ELSE IF a[1] # b[1] THEN a[1] < b[1]
    ELSE StrLess(Tail(a), Tail(b))

\* aValue < bValue for the values the comparator takes from the field: getTime()
\* of the parsed date (NaN for a date that does not parse, and every comparison
\* with NaN is false), the amount, or the lower-cased text.
ValueLess(a, b, field) ==
    CASE field = "date" ->
            /\ a.date # InvalidDate /\ b.date # InvalidDate
            /\ a.date * TicksPerDay < b.date * TicksPerDay
      [] field = "amount" -> a.amount < b.amount
      [] field = "category" ->
            StrLess(toLowerCase(CodeUnits(a.category)), toLowerCase(CodeUnits(b.category)))
      [] field = "description" ->
            StrLess(toLowerCase(CodeUnits(a.description)),
                    toLowerCase(CodeUnits(b.description)))

\* The comparator passed to sort.
compare(a, b, cfg) ==
    IF ValueLess(a, b, cfg.field) THEN (IF cfg.direction = "asc" THEN -1 ELSE 1)
    ELSE IF ValueLess(b, a, cfg.field) THEN (IF cfg.direction = "asc" THEN 1 ELSE -1)
    ELSE 0

\* A sort that puts a record before the earlier records it compares equal to.
RECURSIVE InsertByCompareUnstable(_, _, _)
InsertByCompareUnstable(sorted, x, cfg) ==
    IF sorted = <<>> THEN <<x>>
    ELSE IF compare(x, sorted[1], cfg) <= 0
         THEN <<x>> \o sorted
         ELSE <<sorted[1]>> \o InsertByCompareUnstable(Tail(sorted), x, cfg)

\* Array.prototype.sort is stable: a record goes before the first record the
\* comparator orders it before, after every record it compares equal to.
RECURSIVE InsertByCompare(_, _, _)
InsertByCompare(sorted, x, cfg) ==
    IF sorted = <<>> THEN <<x>>
    ELSE IF compare(x, sorted[1], cfg) < 0
         THEN <<x>> \o sorted
         ELSE <<sorted[1]>> \o InsertByCompare(Tail(sorted), x, cfg)

RECURSIVE SortByCompare(_, _)
SortByCompare(exps, cfg) ==
    IF exps = <<>> THEN <<>>
    ELSE InsertByCompare(SortByCompare(SubSeq(exps, 1, Len(exps) - 1), cfg),
                         exps[Len(exps)], cfg)

\* useMemo(() => [...expenses].sort(...), [expenses, sortConfig])
sortedExpenses == SortByCompare(expenses, sortConfig)

\* The values the filter inputs are set to: a category, 2024-01-10 as start
\* and as end date, 20 as least and 30 as greatest amount.
FilterChoices ==
    {<<"category", "">>, <<"category", "Travel">>,
     <<"startDate", None>>, <<"startDate", Some(19732)>>,
     <<"endDate", None>>, <<"endDate", Some(19732)>>,
     <<"minAmount", None>>, <<"minAmount", Some(20)>>,
     <<"maxAmount", None>>, <<"maxAmount", Some(30)>>}

\* The values the edit form's inputs are set to.
EditChoices == {<<"amount", Some(70)>>, <<"description", " Taxi ">>}

\* The immediate-filter list while the session stays as it is.
NextFilter ==
    \/ \E c \in FilterChoices : handleFilterChange(c[1], c[2])
    \/ clearFilters
    \/ \E i \in 1..MaxInFlight, ok \in BOOLEAN : ListStoreRespond(i, ok)
    \/ \E i \in 1..MaxInFlight : ResumeFetch(i)

\* The staged-filter list between two reloads: deletes and edits of the rows
\* the first fetch has loaded.
NextStaged ==
    \/ \E i \in 1..MaxInFlight, ok \in BOOLEAN : ListStoreRespond(i, ok)
    \/ \E i \in 1..MaxInFlight : StagedResumeFetch(i)
    \/ \E k \in 1..Len(expenses) : DeleteClick(k)
    \/ DeleteCancel
    \/ handleDelete
    \/ \E i \in 1..Len(deletes), ok \in BOOLEAN : DeleteStoreRespond(i, ok)
    \/ \E i \in 1..Len(deletes) : ResumeDelete(i)
    \/ \E k \in 1..Len(expenses) : handleEditClick(k)
    \/ \E c \in EditChoices : handleEditFormChange(c[1], c[2])
    \/ EditCancel
    \/ handleEditSubmit
    \/ \E i \in 1..Len(edits), ok \in BOOLEAN : EditStoreRespond(i, ok)
    \/ \E i \in 1..Len(edits) : ResumeEdit(i)

\* The staged-filter list: the filter panel and the fetches it issues.
NextStagedFilter ==
    \/ \E c \in FilterChoices : handleFilterInputChange(c[1], c[2])
    \/ applyFilters
    \/ StagedClearFilters
    \/ \E i \in 1..MaxInFlight, ok \in BOOLEAN : ListStoreRespond(i, ok)
    \/ \E i \in 1..MaxInFlight : StagedResumeFetch(i)

\* The immediate-filter list with its delete dialog: filter changes, fetches
\* and deletes.
NextListDelete ==
    \/ \E c \in FilterChoices : handleFilterChange(c[1], c[2])
    \/ clearFilters
    \/ \E i \in 1..MaxInFlight, ok \in BOOLEAN : ListStoreRespond(i, ok)
    \/ \E i \in 1..MaxInFlight : ResumeFetch(i)
    \/ \E k \in 1..Len(expenses) : DeleteClick(k)
    \/ DeleteCancel
    \/ handleDelete
    \/ \E i \in 1..Len(deletes), ok \in BOOLEAN : DeleteStoreRespond(i, ok)
    \/ \E i \in 1..Len(deletes) : ResumeDelete(i)

\* The greatest amount is set to 30 or cleared.
MaxAmountChoices == {<<"maxAmount", None>>, <<"maxAmount", Some(30)>>}

\* The staged-filter list: the filter panel and edits of the loaded rows.
NextFilteredEdit ==
    \/ \E c \in MaxAmountChoices : handleFilterInputChange(c[1], c[2])
    \/ applyFilters
    \/ StagedClearFilters
    \/ \E i \in 1..MaxInFlight, ok \in BOOLEAN : ListStoreRespond(i, ok)
    \/ \E i \in 1..MaxInFlight : StagedResumeFetch(i)
    \/ \E k \in 1..Len(expenses) : handleEditClick(k)
    \/ \E c \in EditChoices : handleEditFormChange(c[1], c[2])
    \/ EditCancel
    \/ handleEditSubmit
    \/ \E i \in 1..Len(edits), ok \in BOOLEAN : EditStoreRespond(i, ok)
    \/ \E i \in 1..Len(edits) : ResumeEdit(i)

\* The staged-filter list after mounting: the first fetch and the sort dropdown.
NextSort ==
    \/ \E i \in 1..MaxInFlight, ok \in BOOLEAN : ListStoreRespond(i, ok)
    \/ \E i \in 1..MaxInFlight : StagedResumeFetch(i)
    \/ \E cfg \in SortOptions : setSortConfig(cfg)

\* ------------------------------------------- AuthContext, DashboardLayout
\* formData of AddExpense after mounting; the date is today's.
EmptyForm == [amount |-> None, description |-> "", category |-> "Other"]

\* The routes nested under /dashboard and their elements.
PageOf(p) ==
    IF p = "/dashboard" THEN "Dashboard"
    ELSE IF p = "/dashboard/add" THEN "AddExpense"
    ELSE IF p = "/dashboard/expenses" THEN "ExpensesList"
    ELSE "none"

ProtectedRoutes == {"/dashboard", "/dashboard/add", "/dashboard/expenses"}

\* if (loading) spinner; if (!user) <Navigate to="/login" replace />;
\* otherwise the sidebar and the <Outlet />.
LayoutShown == path \in ProtectedRoutes /\ ~authLoading /\ user # Null

\* The location becomes p and the layout renders for user u: the page
\* mounted so far is unmounted, the element of p (none for /login) mounts with
\* its initial state and runs its effect. The fetchExpenses invocations of an
\* unmounted Dashboard stay suspended at their await.
Route(p, u) ==
    /\ Len(orphans) + Len(dashFetches) <= MaxOrphans
    /\ path' = p
    /\ page' = IF u = Null THEN "none" ELSE PageOf(p)
    /\ orphans' = orphans \o dashFetches
    /\ loading' = (u # Null /\ PageOf(p) \in {"Dashboard", "ExpensesList"})
    /\ error' = ""
    /\ timePeriod' = "month"
    /\ isLoadingBudget' = TRUE
    /\ dashExpenses' = [total |-> 0, thisMonth |-> 0, thisWeek |-> 0]
    /\ recentExpenses' = <<>>
    /\ categoryData' = <<>>
    /\ monthlyData' = <<>>
    /\ dashFetches' = IF u # Null /\ PageOf(p) = "Dashboard"
                      THEN <<NewDashFetch(u, "month")>> ELSE <<>>
    /\ settingsFetches' = IF u # Null /\ PageOf(p) = "Dashboard"
                          THEN <<NewSettingsFetch(u)>> ELSE <<>>
    /\ monthlyBudget' = 3000
    /\ weeklyBudget' = 750
    /\ isEditingBudget' = FALSE
    /\ newBudget' = None
    /\ upserts' = <<>>
    /\ expenses' = <<>>
    /\ deleteLoading' = None
    /\ expenseToDelete' = None
    /\ filters' = EmptyFilters
    /\ filterInputs' = EmptyFilters
    /\ sortConfig' = DefaultSort
    /\ appliedFilters' = EmptyFilters
    /\ applyingFilters' = FALSE
    /\ editingExpense' = None
    /\ editFormData' = EmptyEditForm
    /\ editLoading' = FALSE
    /\ listFetches' = IF u # Null /\ PageOf(p) = "ExpensesList"
                      THEN <<NewListFetch(u, EmptyFilters)>> ELSE <<>>
    /\ deletes' = <<>>
    /\ edits' = <<>>
    /\ formData' = EmptyForm
    /\ success' = FALSE
    /\ inserts' = <<>>

\* getSession resolves: setUser(extractUserData(session?.user)), setLoading(false)
getSession(u) ==
    /\ authLoading
    /\ authLoading' = FALSE
    /\ user' = u
    /\ IF u = Null THEN Route("/login", Null) ELSE Route(path, u)
    /\ UNCHANGED <<store, settings, now, tz, signOuts>>

\* The sidebar links.
NavigateTo(p) ==
    /\ LayoutShown
    /\ p \in ProtectedRoutes
    /\ p # path
    /\ Route(p, user)
    /\ UNCHANGED <<store, settings, now, tz, user, authLoading, signOuts>>

\* onClick={signOut}: signOut up to its await.
signOut ==
    /\ LayoutShown
    /\ signOuts = 0
    /\ signOuts' = signOuts + 1
    /\ UNCHANGED <<store, settings, now, tz, user, authLoading, path, page, orphans,
                   addVars, budgetVars, dashVars, listVars>>

\* signOut resumes after its await: setUser(null), and the layout redirects.
ResumeSignOut ==
    /\ signOuts > 0
    /\ signOuts' = signOuts - 1
    /\ user' = Null
    /\ Route("/login", Null)
    /\ UNCHANGED <<store, settings, now, tz, authLoading>>

\* LoginPage: signIn succeeds, setUser(...), navigate('/dashboard').
signIn(u) ==
    /\ path = "/login"
    /\ ~authLoading
    /\ u # Null
    /\ user' = u
    /\ Route("/dashboard", u)
    /\ UNCHANGED <<store, settings, now, tz, authLoading, signOuts>>

\* The store answers the query a fetchExpenses invocation of an unmounted
\* Dashboard is waiting for.
OrphanStoreRespond(i, ok) ==
    /\ i \in 1..Len(orphans)
    /\ orphans[i].resp = "pending"
    /\ orphans' = ReplaceAt(orphans, i,
            [orphans[i] EXCEPT !.resp = IF ok THEN "ok" ELSE "error",
                               !.data = IF ok THEN DashQueryResult(orphans[i]) ELSE <<>>])
    /\ UNCHANGED <<store, settings, now, tz, user, authLoading, path, page, signOuts,
                   addVars, budgetVars, dashVars, listVars>>

\* Such an invocation resumes after its await: its state setters have no
\* effect, and after the period query it sends the all-expenses query and
\* after that the trend query, each with the user.id of its closure.
OrphanResume(i) ==
    /\ i \in 1..Len(orphans)
    /\ orphans[i].resp # "pending"
    /\ orphans' =
          IF orphans[i].stage = "trend" \/ (orphans[i].stage = "period" /\ orphans[i].resp = "error")
          THEN RemoveAt(orphans, i)
          ELSE ReplaceAt(orphans, i,
                   [orphans[i] EXCEPT
                       !.stage = IF orphans[i].stage = "period" THEN "all" ELSE "trend",
                       !.resp = "pending",
                       !.data = <<>>])
    /\ UNCHANGED <<store, settings, now, tz, user, authLoading, path, page, signOuts,
                   addVars, budgetVars, dashVars, listVars>>

\* ------------------------------------------------------------ AddExpense
\* handleInputChange: setFormData(prev => ({ ...prev, [name]: value }))
handleInputChange(name, value) ==
    /\ path = "/dashboard/add"
    /\ ~success
    /\ formData[name] # value
    /\ formData' = [formData EXCEPT ![name] = value]
    /\ UNCHANGED <<store, settings, now, tz, user, authVars, budgetVars, dashVars, listVars,
                   success, inserts>>

\* Constraint validation of the form: amount is <input type="number" min="0"
\* required>, description is required.
AddFormValid ==
    /\ formData.amount # None /\ parseFloat(formData.amount) >= 0
    /\ formData.description # ""

\* if (isNaN(amount) || amount <= 0) is not taken
AmountAcceptedZero(amount) == amount >= 0

AmountAccepted(amount) == amount > 0

\* The id the store gives a new row.
NewId(rows) == 1 + SumAmount([k \in 1..Len(rows) |-> [amount |-> rows[k].id]])

\* handleSubmit up to its await: the three early returns set an error and
\* send nothing.
handleSubmit ==
    /\ path = "/dashboard/add"
    /\ ~success
    /\ ~loading
    /\ AddFormValid
    /\ IF user = Null
       THEN error' = "You must be logged in to add expenses" /\ UNCHANGED <<loading, inserts>>
       ELSE IF formData.amount = None \/ formData.description = ""
       THEN error' = "Please fill in all required fields" /\ UNCHANGED <<loading, inserts>>
       ELSE IF ~AmountAccepted(parseFloat(formData.amount))
       THEN error' = "Please enter a valid amount" /\ UNCHANGED <<loading, inserts>>
       ELSE /\ error' = ""
            /\ loading' = TRUE
            /\ inserts' = Append(inserts,
                   [resp |-> "pending",
                    row |-> [user_id |-> user,
                             amount |-> parseFloat(formData.amount),
                             description |-> trim(formData.description),
                             category |-> formData.category,
                             date |-> UTCDay(now)]])
    /\ UNCHANGED <<store, settings, now, tz, user, authVars, budgetVars, dashData, listData,
                   formData, success>>

\* The store answers an insert.
InsertStoreRespond(i, ok) ==
    /\ i \in 1..Len(inserts)
    /\ inserts[i].resp = "pending"
    /\ inserts' = ReplaceAt(inserts, i, [inserts[i] EXCEPT !.resp = IF ok THEN "ok" ELSE "error"])
    /\ store' = IF ok
                THEN Append(store, [id |-> NewId(store),
                                    user_id |-> inserts[i].row.user_id,
                                    description |-> inserts[i].row.description,
                                    amount |-> inserts[i].row.amount,
                                    category |-> inserts[i].row.category,
                                    date |-> inserts[i].row.date])
                ELSE store
    /\ UNCHANGED <<settings, now, tz, user, authVars, budgetVars, dashVars, listVars,
                   formData, success>>

\* handleSubmit resumes after its await: success and a reset form, or the
\* error; finally setLoading(false).
ResumeInsert(i) ==
    /\ i \in 1..Len(inserts)
    /\ inserts[i].resp # "pending"
    /\ inserts' = RemoveAt(inserts, i)
    /\ success' = IF inserts[i].resp = "ok" THEN TRUE ELSE success
    /\ formData' = IF inserts[i].resp = "ok" THEN EmptyForm ELSE formData
    /\ error' = IF inserts[i].resp = "ok" THEN error ELSE "Failed to add expense"
    /\ loading' = FALSE
    /\ UNCHANGED <<store, settings, now, tz, user, authVars, budgetVars, dashData, listData>>

\* The timer set on success: navigate('/dashboard/expenses'). AddExpense is
\* unmounted and the staged-filter list mounts and runs its effect.
RedirectToList ==
    /\ path = "/dashboard/add"
    /\ success
    /\ path' = "/dashboard/expenses"
    /\ page' = PageOf("/dashboard/expenses")
    /\ formData' = EmptyForm
    /\ success' = FALSE
    /\ inserts' = <<>>
    /\ loading' = TRUE
    /\ error' = ""
    /\ expenses' = <<>>
    /\ deleteLoading' = None
    /\ expenseToDelete' = None
    /\ filters' = EmptyFilters
    /\ filterInputs' = EmptyFilters
    /\ sortConfig' = DefaultSort
    /\ appliedFilters' = EmptyFilters
    /\ applyingFilters' = FALSE
    /\ editingExpense' = None
    /\ editFormData' = EmptyEditForm
    /\ editLoading' = FALSE
    /\ listFetches' = <<NewListFetch(user, EmptyFilters)>>
    /\ deletes' = <<>>
    /\ edits' = <<>>
    /\ UNCHANGED <<store, settings, now, tz, user, authLoading, signOuts, orphans,
                   budgetVars, dashData>>

\* What is typed into the forms of AddExpense and of the edit modal.
AddChoices ==
    {<<"amount", None>>, <<"amount", Some(-5)>>, <<"amount", Some(0)>>,
     <<"amount", Some(25)>>, <<"description", "Lunch">>}

\* Adding a record, then editing the records of the list.
NextAdd ==
    \/ \E c \in AddChoices : handleInputChange(c[1], c[2])
    \/ handleSubmit
    \/ \E i \in 1..MaxInFlight, ok \in BOOLEAN : InsertStoreRespond(i, ok)
    \/ \E i \in 1..MaxInFlight : ResumeInsert(i)
    \/ RedirectToList
    \/ \E i \in 1..MaxInFlight, ok \in BOOLEAN : ListStoreRespond(i, ok)
    \/ \E i \in 1..MaxInFlight : StagedResumeFetch(i)
    \/ \E k \in 1..Len(expenses) : handleEditClick(k)
    \/ \E c \in AddChoices : handleEditFormChange(c[1], c[2])
    \/ EditCancel
    \/ handleEditSubmit
    \/ \E j \in 1..MaxInFlight, ok \in BOOLEAN : EditStoreRespond(j, ok)
    \/ \E j \in 1..MaxInFlight : ResumeEdit(j)

\* ---------------------------------------------------------------- inputs
UserA == "A"
UserB == "B"

Expense(id, uid, amount, category, date) ==
    [id |-> id, user_id |-> uid, description |-> "Item", amount |-> amount,
     category |-> category, date |-> date]

\* 2024-01-20 (a Saturday) at 12:00 and at 18:00 UTC, and 2024-01-03 at 12:00 UTC.
Nows == {19742 * TicksPerDay + TicksPerDay \div 2,
         19742 * TicksPerDay + TicksPerDay - 1,
         19725 * TicksPerDay + TicksPerDay \div 2}

TimeZones == {-1, 0, 1}

\* The budget state of a Dashboard after mounting: useState(3000), useState(750).
BudgetDefaults ==
    /\ monthlyBudget = 3000
    /\ weeklyBudget = 750
    /\ isEditingBudget = FALSE
    /\ newBudget = None
    /\ upserts = <<>>

\* The state of a Dashboard whose effect has just run for `period`: for 'month'
\* right after mounting, for 'week' after a first load whose queries failed
\* and a click on the week button.
DashMounted(period) ==
    /\ user = UserA
    /\ timePeriod = period
    /\ loading = TRUE
    /\ isLoadingBudget = (period = "month")
    /\ dashExpenses = [total |-> 0, thisMonth |-> 0, thisWeek |-> 0]
    /\ recentExpenses = <<>>
    /\ categoryData = <<>>
    /\ monthlyData = <<>>
    /\ dashFetches = <<NewDashFetch(UserA, period)>>
    /\ settingsFetches = <<NewSettingsFetch(UserA)>>
    /\ BudgetDefaults

\* The state of the variables of a component that is not mounted.
DashUnmounted ==
    /\ timePeriod = "month"
    /\ isLoadingBudget = TRUE
    /\ dashExpenses = [total |-> 0, thisMonth |-> 0, thisWeek |-> 0]
    /\ recentExpenses = <<>>
    /\ categoryData = <<>>
    /\ monthlyData = <<>>
    /\ dashFetches = <<>>
    /\ settingsFetches = <<>>
    /\ BudgetDefaults

AddUnmounted ==
    /\ formData = EmptyForm
    /\ success = FALSE
    /\ inserts = <<>>

\* The session of a signed-in user on a route of the layout, no sign-out under way.
SessionAt(p) ==
    /\ authLoading = FALSE
    /\ path = p
    /\ page = PageOf(p)
    /\ signOuts = 0
    /\ orphans = <<>>

\* The table 'user_settings': a row of UserA and a row of UserB.
SettingsTable ==
    <<[user_id |-> UserA, monthly_budget |-> 5000, weekly_budget |-> 1000],
      [user_id |-> UserB, monthly_budget |-> 4000, weekly_budget |-> 900]>>

ListUnmounted ==
    /\ expenses = <<>>
    /\ error = ""
    /\ deleteLoading = None
    /\ expenseToDelete = None
    /\ filters = EmptyFilters
    /\ filterInputs = EmptyFilters
    /\ sortConfig = DefaultSort
    /\ appliedFilters = EmptyFilters
    /\ applyingFilters = FALSE
    /\ editingExpense = None
    /\ editFormData = EmptyEditForm
    /\ editLoading = FALSE
    /\ listFetches = <<>>
    /\ deletes = <<>>
    /\ edits = <<>>

\* The state of a list whose effect has just run after mounting.
ListMounted ==
    /\ user = UserA
    /\ loading = TRUE
    /\ expenses = <<>>
    /\ error = ""
    /\ deleteLoading = None
    /\ expenseToDelete = None
    /\ filters = EmptyFilters
    /\ filterInputs = EmptyFilters
    /\ sortConfig = DefaultSort
    /\ appliedFilters = EmptyFilters
    /\ applyingFilters = FALSE
    /\ editingExpense = None
    /\ editFormData = EmptyEditForm
    /\ editLoading = FALSE
    /\ listFetches = <<NewListFetch(UserA, EmptyFilters)>>
    /\ deletes = <<>>
    /\ edits = <<>>

\* The table of the lists: four rows of UserA, dated 2024-01-05, 2024-01-10,
\* 2024-01-15 and 2024-01-10, and a row of UserB that matches every filter.
ListTable ==
    <<[id |-> 1, user_id |-> UserA, description |-> "Lunch", amount |-> 50,
       category |-> "Food & Dining", date |-> 19727],
      [id |-> 2, user_id |-> UserA, description |-> "Dinner", amount |-> 30,
       category |-> "Food & Dining", date |-> 19732],
      [id |-> 3, user_id |-> UserA, description |-> "Taxi", amount |-> 20,
       category |-> "Travel", date |-> 19737],
      [id |-> 4, user_id |-> UserA, description |-> "Bus", amount |-> 5,
       category |-> "Travel", date |-> 19732],
      [id |-> 8, user_id |-> UserB, description |-> "Flight", amount |-> 25,
       category |-> "Travel", date |-> 19732]>>

\* Every table that keeps the row of UserB and some rows of UserA.
ListStores ==
    {SelectSeq(ListTable, LAMBDA r : r.id \in S \cup {8}) : S \in SUBSET {1, 2, 3, 4}}

\* The tables in which UserA has the taxi record, alone or with the bus record.
StagedStores ==
    {SelectSeq(ListTable, LAMBDA r : r.id \in S \cup {8}) : S \in {{3}, {3, 4}}}

\* A row of another user, present in every table.
ForeignRows == <<Expense(9, UserB, 64, "Other", 19742)>>

\* Dates around the period, week and window boundaries of Nows: 2023-12-31,
\* 2024-01-01, 2024-01-13, 2024-01-14 (a Sunday), 2024-01-20, 2024-01-21,
\* 2025-01-20, and a date that does not parse.
DateInputs == {19722, 19723, 19735, 19736, 19742, 19743, 20108, InvalidDate}

RECURSIVE Pow2(_)
Pow2(n) == IF n = 0 THEN 1 ELSE 2 * Pow2(n - 1)

\* Tables for the date-dependent aggregates: up to MaxRecords rows of UserA in
\* nondecreasing date order, the i-th with amount 2^(i-1), so that a total
\* tells which rows it counts.
DateStores ==
    {ForeignRows \o [i \in 1..Len(d) |-> Expense(i, UserA, Pow2(i - 1), "Other", d[i])] :
        d \in {dd \in UNION {[1..k -> DateInputs] : k \in 0..MaxRecords} :
                  \A i \in 1..(Len(dd) - 1) : dd[i] <= dd[i + 1]}}

\* Tables for the category breakdown: up to MaxCatRecords rows of UserA in any
\* order, dated 2024-01-15 (inside the week and the month of 2024-01-20) or
\* 2023-12-24 (outside both), one of them with a category outside the enumeration.
CatRowInputs ==
    {[amount |-> a, category |-> c, date |-> d] :
        a \in {20, 40}, c \in {"Food & Dining", "Travel", "Crypto"}, d \in {19737, 19715}}

CatStores ==
    {ForeignRows \o [i \in 1..Len(r) |->
                        Expense(i, UserA, r[i].amount, r[i].category, r[i].date)] :
        r \in UNION {[1..k -> CatRowInputs] : k \in 0..MaxCatRecords}}

\* The rows of the sorted tables: two share a date, two an amount, two a
\* category up to case, two a description up to case, and one has a date that
\* does not parse.
SortRows ==
    {[id |-> 1, user_id |-> UserA, description |-> "apple", amount |-> 20,
      category |-> "Travel", date |-> 19732],
     [id |-> 2, user_id |-> UserA, description |-> "Bus", amount |-> 20,
      category |-> "other", date |-> 19732],
     [id |-> 3, user_id |-> UserA, description |-> "Taxi", amount |-> 50,
      category |-> "Other", date |-> 19737],
     [id |-> 4, user_id |-> UserA, description |-> "taxi", amount |-> 5,
      category |-> "Travel", date |-> 19727],
     [id |-> 5, user_id |-> UserA, description |-> "Bus", amount |-> 30,
      category |-> "Other", date |-> InvalidDate]}

\* Every table of up to MaxSortRecords different rows of UserA, in any order.
SortStores ==
    {ForeignRows \o r :
        r \in {rr \in UNION {[1..k -> SortRows] : k \in 0..MaxSortRecords} :
                  \A i, j \in 1..Len(rr) : rr[i] = rr[j] => i = j}}

InitAgg ==
    /\ store \in DateStores
    /\ now \in Nows
    /\ tz \in TimeZones
    /\ \E p \in {"week", "month"} : DashMounted(p)
    /\ ListUnmounted
    /\ settings = SettingsTable
    /\ AddUnmounted
    /\ SessionAt("/dashboard")

InitAggUTC ==
    /\ InitAgg
    /\ tz = 0

InitCat ==
    /\ store \in CatStores
    /\ now = 19742 * TicksPerDay + TicksPerDay \div 2
    /\ tz \in TimeZones
    /\ \E p \in {"week", "month"} : DashMounted(p)
    /\ ListUnmounted
    /\ settings = SettingsTable
    /\ AddUnmounted
    /\ SessionAt("/dashboard")

InitDash ==
    /\ store \in {s \in DateStores : Len(s) <= 2}
    /\ now = 19742 * TicksPerDay + TicksPerDay \div 2
    /\ tz = 0
    /\ DashMounted("month")
    /\ ListUnmounted
    /\ settings = SettingsTable
    /\ AddUnmounted
    /\ SessionAt("/dashboard")

InitList ==
    /\ store \in ListStores
    /\ now = 19742 * TicksPerDay + TicksPerDay \div 2
    /\ tz = 0
    /\ ListMounted
    /\ DashUnmounted
    /\ settings = SettingsTable
    /\ AddUnmounted
    /\ SessionAt("/dashboard/expenses")

InitSort ==
    /\ store \in SortStores
    /\ now = 19742 * TicksPerDay + TicksPerDay \div 2
    /\ tz = 0
    /\ ListMounted
    /\ DashUnmounted
    /\ settings = SettingsTable
    /\ AddUnmounted
    /\ SessionAt("/dashboard/expenses")

InitStaged ==
    /\ store \in StagedStores
    /\ now = 19742 * TicksPerDay + TicksPerDay \div 2
    /\ tz = 0
    /\ ListMounted
    /\ DashUnmounted
    /\ settings = SettingsTable
    /\ AddUnmounted
    /\ SessionAt("/dashboard/expenses")

\* One load of the Dashboard over tables of dated rows.
SpecAgg == InitAgg /\ [][NextLoad]_vars

\* The same in a browser whose local time is UTC.
SpecAggUTC == InitAggUTC /\ [][NextLoad]_vars

\* One load of the Dashboard over tables of categorised rows.
SpecCat == InitCat /\ [][NextLoad]_vars

\* The Dashboard with period changes and session events.
SpecDash == InitDash /\ [][NextDash]_vars

\* The Dashboard when no query fails.
SpecDashOk == InitDash /\ [][NextDashOk]_vars

\* The tables 'user_settings' a Dashboard of UserA can meet: a row of UserA or
\* none, next to the row of UserB.
SettingsTables == {SettingsTable, SubSeq(SettingsTable, 2, 2)}

\* A Dashboard on 2024-01-20 over no expense or one of this week, its effect
\* just run for either period.
InitBudget ==
    /\ store \in {ForeignRows, ForeignRows \o <<Expense(1, UserA, 40, "Food", 19742)>>}
    /\ now = 19742 * TicksPerDay + TicksPerDay \div 2
    /\ tz = 0
    /\ \E period \in {"week", "month"} : DashMounted(period)
    /\ ListUnmounted
    /\ settings \in SettingsTables
    /\ AddUnmounted
    /\ SessionAt("/dashboard")

SpecBudget == InitBudget /\ [][NextBudget]_vars

\* AddExpense just mounted, over the tables of the staged-filter list.
InitAdd ==
    /\ store \in StagedStores
    /\ now = 19742 * TicksPerDay + TicksPerDay \div 2
    /\ tz = 0
    /\ user = UserA
    /\ loading = FALSE
    /\ DashUnmounted
    /\ ListUnmounted
    /\ settings = SettingsTable
    /\ AddUnmounted
    /\ SessionAt("/dashboard/add")

SpecAdd == InitAdd /\ [][NextAdd]_vars

\* The session: start, navigation, sign-out and sign-in, and the loads of
\* the pages.
NextAuth ==
    \/ \E u \in {Null, UserA} : getSession(u)
    \/ \E p \in ProtectedRoutes : NavigateTo(p)
    \/ signOut
    \/ ResumeSignOut
    \/ \E u \in {UserA, UserB} : signIn(u)
    \/ \E i \in 1..MaxInFlight, ok \in BOOLEAN : DashStoreRespond(i, ok)
    \/ \E i \in 1..MaxInFlight : ResumePeriod(i)
    \/ \E i \in 1..MaxInFlight : ResumeAll(i)
    \/ \E i \in 1..MaxInFlight : ResumeTrend(i)
    \/ \E i \in 1..MaxInFlight : SettingsStoreRespond(i, TRUE)
    \/ \E i \in 1..MaxInFlight : ResumeSettings(i)
    \/ \E i \in 1..MaxInFlight : ListStoreRespond(i, TRUE)
    \/ \E i \in 1..MaxInFlight : ResumeFetch(i)
    \/ \E i \in 1..MaxOrphans, ok \in BOOLEAN : OrphanStoreRespond(i, ok)
    \/ \E i \in 1..MaxOrphans : OrphanResume(i)

\* The application just loaded at a protected route, the session not yet known.
InitAuth ==
    /\ store = ForeignRows \o <<Expense(1, UserA, 40, "Other", 19742)>>
    /\ now = 19742 * TicksPerDay + TicksPerDay \div 2
    /\ tz = 0
    /\ user = Null
    /\ loading = FALSE
    /\ DashUnmounted
    /\ ListUnmounted
    /\ settings = SettingsTable
    /\ AddUnmounted
    /\ authLoading = TRUE
    /\ path \in ProtectedRoutes
    /\ page = "none"
    /\ signOuts = 0
    /\ orphans = <<>>

SpecAuth == InitAuth /\ [][NextAuth]_vars

\* The immediate-filter list: filter changes and the fetches they issue.
SpecFilter == InitList /\ [][NextFilter]_vars

\* The staged-filter list: staging, Apply and Clear.
SpecStagedFilter == InitList /\ [][NextStagedFilter]_vars

\* The immediate-filter list: filter changes and deletes.
SpecListDelete == InitStaged /\ [][NextListDelete]_vars

\* The staged-filter list: the displayed order of the loaded rows.
SpecSort == InitSort /\ [][NextSort]_vars

\* The staged-filter list: deletes and edits.
SpecStaged == InitStaged /\ [][NextStaged]_vars

\* The staged-filter list: a filter on the amount and edits.
SpecFilteredEdit == InitStaged /\ [][NextFilteredEdit]_vars

\* ======================================================================
\* Properties
\* ======================================================================
\* The local calendar day of now, and the rows of a user in the table.
Today == LocalDay(now)

RowsOf(uid) == SelectSeq(store, LAMBDA r : r.user_id = uid)

WindowLength(period) == IF period = "week" THEN WeekWindow ELSE MonthWindow

\* The step in which updateMonthlyTrends consumes a successful trend response.
TrendOkStep(i) ==
    /\ dashFetches[i].stage = "trend"
    /\ dashFetches[i].resp = "ok"
    /\ dashFetches' = RemoveAt(dashFetches, i)

\* The label of the k-th bucket of the window that ends at now's bucket.
BucketLabel(period, k) ==
    IF period = "week"
    THEN LET c == CivilFromDays(Today - (WeekWindow - k)) IN <<c.month, c.day>>
    ELSE LET c   == CivilFromDays(Today)
             idx == c.year * 12 + (c.month - 1) - (MonthWindow - k)
         IN  <<(idx % 12) + 1, idx \div 12>>

\* The label the code derives from a row's (valid) date.
RowLabel(r, period) ==
    IF period = "week" THEN DayKey(r.date * TicksPerDay) ELSE MonthKey(r.date * TicksPerDay)

\* C1: for every record collection, the empty one included, the trend
\* computation yields exactly windowLength entries, one for every bucket of the
\* window, and a bucket no record falls into has total 0.
C1_AlwaysWindowLength ==
    [][\A i \in 1..Len(dashFetches) :
          TrendOkStep(i) =>
            LET period == dashFetches[i].period
                rows   == dashFetches[i].data
            IN  /\ Len(monthlyData') = WindowLength(period)
                /\ \A k \in 1..WindowLength(period) :
                      /\ monthlyData'[k].month = BucketLabel(period, k)
                      /\ (\A j \in 1..Len(rows) :
                             rows[j].date = InvalidDate
                             \/ (period = "week" /\ rows[j].date # Today - (WeekWindow - k))
                             \/ (period = "month"
                                 /\ <<CivilFromDays(rows[j].date).month,
                                      CivilFromDays(rows[j].date).year>>
                                    # BucketLabel(period, k)))
                         => monthlyData'[k].total = 0]_vars

\* What the trend computation does yield: no entries for the empty collection;
\* otherwise windowLength entries, one for every bucket of the window in order,
\* with total 0 in a bucket whose label the code derives from no record's date.
WindowLengthIfNonEmpty ==
    [][\A i \in 1..Len(dashFetches) :
          TrendOkStep(i) =>
            LET period == dashFetches[i].period
                rows   == dashFetches[i].data
            IN  IF rows = <<>>
                THEN monthlyData' = <<>>
                ELSE /\ Len(monthlyData') = WindowLength(period)
                     /\ \A k \in 1..WindowLength(period) :
                           /\ monthlyData'[k].month = BucketLabel(period, k)
                           /\ (\A j \in 1..Len(rows) :
                                  rows[j].date = InvalidDate
                                  \/ RowLabel(rows[j], period) # BucketLabel(period, k))
                              => monthlyData'[k].total = 0]_vars

\* The total the claim gives the k-th bucket: the amounts of the rows dated on
\* the bucket's calendar day, or in its calendar month and year.
ClaimBucketTotal(rows, period, k) ==
    SumAmount(SelectSeq(rows, LAMBDA r :
        /\ r.date # InvalidDate
        /\ IF period = "week"
           THEN r.date = Today - (WeekWindow - k)
           ELSE <<CivilFromDays(r.date).month, CivilFromDays(r.date).year>>
                = BucketLabel(period, k)))

\* C7: every record is added to the bucket of its own calendar day (or month and
\* year) and to no other; a record dated outside the window, also one in another
\* year with the same month and day, is added to no bucket.
C7_OwnBucketOnly ==
    [][\A i \in 1..Len(dashFetches) :
          (TrendOkStep(i) /\ dashFetches[i].data # <<>>) =>
            LET period == dashFetches[i].period
                rows   == dashFetches[i].data
            IN  /\ Len(monthlyData') = WindowLength(period)
                /\ \A k \in 1..WindowLength(period) :
                      monthlyData'[k].total = ClaimBucketTotal(rows, period, k)]_vars

\* The day the claim's month and week start on.
ClaimMonthStart ==
    LET c == CivilFromDays(Today) IN DaysFromCivil(c.year, c.month, 1)

ClaimWeekStart == Today - ((Today + 4) % 7)

SumFrom(rows, day) ==
    SumAmount(SelectSeq(rows, LAMBDA r : r.date # InvalidDate /\ r.date >= day))

\* C6: after a load, total is the sum over all records of the user, thisMonth the
\* sum over those dated on or after the first day of now's month, thisWeek the
\* sum over those dated on or after the most recent Sunday; all 0 when empty.
C6_Summary ==
    \A i \in 1..Len(dashFetches) :
        (dashFetches[i].stage = "trend" /\ dashFetches[i].hasAll) =>
            dashExpenses =
                [total     |-> SumAmount(RowsOf(dashFetches[i].uid)),
                 thisMonth |-> SumFrom(RowsOf(dashFetches[i].uid), ClaimMonthStart),
                 thisWeek  |-> SumFrom(RowsOf(dashFetches[i].uid), ClaimWeekStart)]

\* In a browser at or east of UTC the summary is the claimed one.
SummaryEastOfUTC == tz >= 0 => C6_Summary

\* C5 as claimed: for a non-empty collection the all-time total equals the sum
\* of the totals of the category breakdown of the same load.
C5_TotalEqualsBreakdown ==
    \A i \in 1..Len(dashFetches) :
        (dashFetches[i].stage = "trend" /\ dashFetches[i].hasAll
            /\ dashFetches[i].allExpenses # <<>>) =>
            dashExpenses.total = SumTotal(categoryData)

\* C5 as amended: the totals of the category breakdown sum to the amounts of the
\* records the period query of the same load returned; they sum to the all-time
\* total when every record of the user is among them.
C5_BreakdownConservesPeriod ==
    \A i \in 1..Len(dashFetches) :
        dashFetches[i].stage = "trend" =>
            /\ SumTotal(categoryData) = SumAmount(dashFetches[i].periodExpenses)
            /\ (dashFetches[i].hasAll
                /\ Len(dashFetches[i].periodExpenses) = Len(dashFetches[i].allExpenses))
               => dashExpenses.total = SumTotal(categoryData)

\* A load that grouped several records of the period into fewer categories while
\* an older record makes the all-time total larger than the breakdown.
C5_Witness ==
    \E i \in 1..Len(dashFetches) :
        /\ dashFetches[i].stage = "trend" /\ dashFetches[i].hasAll
        /\ Len(categoryData) >= 1
        /\ Len(categoryData) < Len(dashFetches[i].periodExpenses)
        /\ dashExpenses.total > SumTotal(categoryData)

\* The first position of a category in a sequence of records.
FirstIndex(exps, c) == CHOOSE j \in 1..Len(exps) :
    exps[j].category = c /\ \A l \in 1..(j - 1) : exps[l].category # c

\* C9: the breakdown has one entry per distinct category of its input, each with
\* the sum of that category's amounts, in descending order of total, entries
\* with equal totals in first-encountered order; empty input, empty breakdown.
C9_Breakdown ==
    \A i \in 1..Len(dashFetches) :
        dashFetches[i].stage = "trend" =>
            LET exps == dashFetches[i].periodExpenses IN
            /\ {categoryData[k].category : k \in 1..Len(categoryData)}
                 = {exps[j].category : j \in 1..Len(exps)}
            /\ \A k, l \in 1..Len(categoryData) :
                  k # l => categoryData[k].category # categoryData[l].category
            /\ \A k \in 1..Len(categoryData) :
                  categoryData[k].total =
                    SumAmount(SelectSeq(exps,
                        LAMBDA e : e.category = categoryData[k].category))
            /\ \A k \in 1..(Len(categoryData) - 1) :
                  \/ categoryData[k].total > categoryData[k + 1].total
                  \/ /\ categoryData[k].total = categoryData[k + 1].total
                     /\ FirstIndex(exps, categoryData[k].category)
                          < FirstIndex(exps, categoryData[k + 1].category)
            /\ (exps = <<>> => categoryData = <<>>)

\* A breakdown of three records in two categories whose totals are equal.
C9_Witness ==
    \E i \in 1..Len(dashFetches) :
        /\ dashFetches[i].stage = "trend"
        /\ Len(dashFetches[i].periodExpenses) = 3
        /\ Len(categoryData) = 2
        /\ categoryData[1].total = categoryData[2].total

\* C10: no entry of the breakdown carries a category outside the ten labels; a
\* record with such a category is counted under "Other".
C10_OnlyEnumeratedCategories ==
    \A i \in 1..Len(dashFetches) :
        dashFetches[i].stage = "trend" =>
            /\ \A k \in 1..Len(categoryData) : categoryData[k].category \in Categories
            /\ SumTotal(SelectSeq(categoryData, LAMBDA c : c.category = "Other"))
                 = SumAmount(SelectSeq(dashFetches[i].periodExpenses,
                       LAMBDA e : e.category \notin (Categories \ {"Other"})))

\* C2: in every interleaving of request completions, once all requests have
\* resolved the Dashboard displays the result of the fetch issued for the
\* selected time period, never that of an older fetch that completed later.
C2_CurrentParamsShown ==
    dashFetches = <<>> =>
        /\ categoryData = updateCategoryData(PeriodQuery(user, timePeriod))
        /\ monthlyData = updateMonthlyTrends(TrendQuery(user), timePeriod)

\* A record passes a filter when every field of the filter that is set matches.
ClaimMatches(r, f) ==
    /\ f.category # "" => r.category = f.category
    /\ f.startDate # None => r.date >= f.startDate[1]
    /\ f.endDate # None => r.date <= f.endDate[1]
    /\ f.minAmount # None => r.amount >= f.minAmount[1]
    /\ f.maxAmount # None => r.amount <= f.maxAmount[1]

\* C8: the list loaded for a filter holds a record of the user if and only if
\* every set filter field matches (category equal, date >= startDate, date <=
\* endDate, amount >= minAmount, amount <= maxAmount); an unset field imposes
\* no constraint, and the list holds nothing else and nothing twice.
C8_ListMatchesFilter ==
    (listFetches = <<>> /\ error = "") =>
        /\ \A k \in 1..Len(store) :
              (store[k].user_id = user /\ ClaimMatches(store[k], filters))
                  <=> (\E j \in 1..Len(expenses) : expenses[j] = store[k])
        /\ \A j \in 1..Len(expenses) : \E k \in 1..Len(store) : store[k] = expenses[j]
        /\ \A i, j \in 1..Len(expenses) : expenses[i] = expenses[j] => i = j

\* The filter {category: Travel, minAmount: 20} over the whole table has loaded
\* the one record it matches, whose amount is exactly the least amount.
C8_Witness ==
    /\ listFetches = <<>> /\ error = ""
    /\ store = ListTable
    /\ filters = [EmptyFilters EXCEPT !.category = "Travel", !.minAmount = Some(20)]
    /\ expenses = <<ListTable[3]>>

\* C3: a delete or edit whose request fails leaves the working set as it was
\* and records an error message; the working set changes only when a request
\* completes, and a mutation changes it only after the store reported success.
C3_FailedMutationKeepsWorkingSet ==
    [][ /\ \A i \in 1..Len(deletes) :
              (deletes[i].resp = "error" /\ deletes' = RemoveAt(deletes, i))
                  => (expenses' = expenses /\ error' # "")
        /\ \A i \in 1..Len(edits) :
              (edits[i].resp = "error" /\ edits' = RemoveAt(edits, i))
                  => (expenses' = expenses /\ error' # "")
        /\ (/\ Len(deletes') >= Len(deletes)
            /\ Len(edits') >= Len(edits)
            /\ Len(listFetches') >= Len(listFetches)) => expenses' = expenses
      ]_vars

\* A delete has failed: the dialog is still open on a record that is still in
\* the working set, and the error is shown.
C3_Witness ==
    /\ error = DeleteFailed
    /\ deletes = <<>> /\ deleteLoading = None
    /\ expenseToDelete # None
    /\ \E k \in 1..Len(expenses) : expenses[k].id = expenseToDelete[1].id

Ids(s) == {s[k].id : k \in 1..Len(s)}

\* C4: while a delete of record X is in flight no edit of X is issued and no
\* edit of X is applied to the working set, and the completion of an edit
\* never brings a record back into the working set.
C4_NoEditDuringDelete ==
    [][ /\ \A d \in 1..Len(deletes) :
              /\ Len(edits') > Len(edits) => edits'[Len(edits')].id # deletes[d].id
              /\ \A j \in 1..Len(edits) :
                    (edits' = RemoveAt(edits, j) /\ edits[j].id = deletes[d].id)
                        => expenses' = expenses
        /\ Len(edits') < Len(edits) => Ids(expenses') \subseteq Ids(expenses)
      ]_vars

\* Completing an edit adds no record id to the working set.
EditDoesNotResurrect ==
    [][Len(edits') < Len(edits) => Ids(expenses') \subseteq Ids(expenses)]_vars

\* The position of a record in a sequence of different records.
PosIn(seq, e) == CHOOSE k \in 1..Len(seq) : seq[k] = e

\* Text folded to upper case, for comparing without regard to case.
UpperCase(u) == [i \in 1..Len(u) |-> IF u[i] \in 97..122 THEN u[i] - 32 ELSE u[i]]

\* a comes strictly before b in ascending order of the field: dates and amounts
\* as numbers, category and description as text without regard to case.  A date
\* that does not parse comes neither before nor after any other.
ClaimKeyLess(a, b, field) ==
    CASE field = "date" -> a.date # InvalidDate /\ b.date # InvalidDate /\ a.date < b.date
      [] field = "amount" -> a.amount < b.amount
      [] field = "category" ->
            StrLess(UpperCase(CodeUnits(a.category)), UpperCase(CodeUnits(b.category)))
      [] field = "description" ->
            StrLess(UpperCase(CodeUnits(a.description)), UpperCase(CodeUnits(b.description)))

\* C11: the displayed list is a permutation of the working set in the order of
\* the selected field and direction (date and amount as numbers, category and
\* description without regard to case), and records that compare equal on the
\* field keep their relative order from the working set, in both directions.
C11_SortedView ==
    LET s == sortedExpenses
        f == sortConfig.field
    IN  /\ Len(s) = Len(expenses)
        /\ \A k \in 1..Len(expenses) : \E j \in 1..Len(s) : s[j] = expenses[k]
        /\ \A i, j \in 1..Len(s) :
              i < j =>
                /\ IF sortConfig.direction = "asc"
                   THEN ~ClaimKeyLess(s[j], s[i], f)
                   ELSE ~ClaimKeyLess(s[i], s[j], f)
                /\ (~ClaimKeyLess(s[i], s[j], f) /\ ~ClaimKeyLess(s[j], s[i], f))
                      => PosIn(expenses, s[i]) < PosIn(expenses, s[j])

\* Three loaded records shown by description, Z to A: two descriptions differ
\* only in case and keep their order, and the displayed order is not the
\* working set's.
C11_Witness ==
    /\ ~loading /\ Len(expenses) = 3
    /\ sortConfig = [field |-> "description", direction |-> "desc"]
    /\ sortedExpenses # expenses
    /\ \E i, j \in 1..3 :
          /\ i < j
          /\ sortedExpenses[i].description # sortedExpenses[j].description
          /\ ~ClaimKeyLess(sortedExpenses[i], sortedExpenses[j], "description")
          /\ ~ClaimKeyLess(sortedExpenses[j], sortedExpenses[i], "description")

\* The sum of the amounts of the records at positions 1..n.
RECURSIVE ClaimSum(_, _)
ClaimSum(s, n) == IF n = 0 THEN 0 ELSE ClaimSum(s, n - 1) + s[n].amount

\* C12: the summary is computed over the loaded working set: count is its
\* length, sum the total of its amounts (once loaded without error, of the
\* user's records that pass the filter), average is sum / count to the cent
\* when count > 0 and zero when the working set is empty.
C12_Summary ==
    LET n == Len(expenses)
        matching == SelectSeq(store, LAMBDA r : r.user_id = user /\ ClaimMatches(r, filters))
    IN  /\ ListSummary.count = n
        /\ ListSummary.sum = 100 * ClaimSum(expenses, n)
        /\ (listFetches = <<>> /\ error = "") =>
              /\ ListSummary.count = Len(matching)
              /\ ListSummary.sum = 100 * ClaimSum(matching, Len(matching))
        /\ n > 0 =>
              /\ 2 * (ListSummary.average * n - 100 * ClaimSum(expenses, n)) <= n
              /\ 2 * (100 * ClaimSum(expenses, n) - ListSummary.average * n) <= n
        /\ n = 0 => ListSummary.average = 0

\* A filter that no record of the user passes has been loaded: the list is
\* empty while the table holds records of the user, and the average shown is
\* zero.
C12_Witness ==
    /\ ~loading /\ listFetches = <<>> /\ error = ""
    /\ filters # EmptyFilters
    /\ Len(EqUser(store, user)) >= 2
    /\ expenses = <<>>
    /\ ListSummary = [count |-> 0, sum |-> 0, average |-> 0]

\* The step in which handleDelete resumes after the store confirmed the delete.
DeleteOkStep(i) ==
    /\ deletes[i].resp = "ok"
    /\ deletes' = RemoveAt(deletes, i)

\* C13: the local removal after a successful delete of id X removes exactly the
\* records of the working set whose id is X and leaves every other record and
\* the order of the rest as they are; with no record of id X in the working set
\* it changes nothing.
C13_RemoveExactlyX ==
    [][\A i \in 1..Len(deletes) :
          DeleteOkStep(i) =>
              expenses' = SelectSeq(expenses, LAMBDA e : e.id # deletes[i].id)]_vars

\* What the removal does do: it filters the working set of the render in which
\* the delete was confirmed, so removing X from its result changes nothing.
RemoveFromCapturedSet ==
    [][\A i \in 1..Len(deletes) :
          DeleteOkStep(i) =>
              /\ expenses' = SelectSeq(deletes[i].expenses, LAMBDA e : e.id # deletes[i].id)
              /\ SelectSeq(expenses', LAMBDA e : e.id # deletes[i].id) = expenses']_vars

\* The step in which handleEditSubmit resumes after the store confirmed the
\* update.
EditOkStep(j) ==
    /\ edits[j].resp = "ok"
    /\ edits' = RemoveAt(edits, j)

\* C14: the local replacement after a successful edit of id X changes only the
\* record of the working set whose id is X, giving it the submitted description
\* (as typed or as sent to the store), amount, category and date and keeping
\* its id and user_id; every other record stays as it is, and with no record of
\* id X in the working set nothing changes.
C14_ReplaceOnlyX ==
    [][\A j \in 1..Len(edits) :
          EditOkStep(j) =>
              /\ Len(expenses') = Len(expenses)
              /\ \A k \in 1..Len(expenses) :
                    IF expenses[k].id = edits[j].id
                    THEN /\ expenses'[k].id = expenses[k].id
                         /\ expenses'[k].user_id = expenses[k].user_id
                         /\ expenses'[k].description
                               \in {edits[j].form.description, trim(edits[j].form.description)}
                         /\ expenses'[k].amount = edits[j].form.amount[1]
                         /\ expenses'[k].category = edits[j].form.category
                         /\ expenses'[k].date = edits[j].form.date[1]
                    ELSE expenses'[k] = expenses[k]]_vars

\* After a successful edit with no other request in flight, the record in the
\* working set is the row the store holds.
EditedCopyIsStoredRow ==
    [][\A j \in 1..Len(edits) :
          (EditOkStep(j) /\ Len(edits) = 1 /\ deletes = <<>> /\ listFetches = <<>>) =>
              \A k \in 1..Len(expenses') :
                  expenses'[k].id = edits[j].id =>
                      \E r \in 1..Len(store) : store[r] = expenses'[k]]_vars

\* C15: while a delete request is in flight deleteLoading holds the id of the
\* record being deleted, no further delete request is issued and the dialog
\* keeps its record (confirm, cancel and row delete controls are disabled), so
\* at most one delete request is in flight; deleteLoading is null again once the
\* request has completed, with success or with failure.
C15_OneDeleteInFlight ==
    /\ [](/\ Len(deletes) <= 1
          /\ deletes # <<>> => deleteLoading = Some(deletes[1].id)
          /\ deletes = <<>> => deleteLoading = None)
    /\ [][deletes # <<>> =>
            /\ Len(deletes') <= Len(deletes)
            /\ deletes' # <<>> => expenseToDelete' = expenseToDelete
            /\ deletes' = <<>> => deleteLoading' = None]_vars

\* A delete request has failed at the store and handleDelete has not resumed
\* yet, while a fetch for a changed filter is in flight as well.
C15_Witness ==
    /\ Len(deletes) = 1 /\ deletes[1].resp = "error"
    /\ deleteLoading = Some(deletes[1].id)
    /\ expenseToDelete # None
    /\ listFetches # <<>> /\ filters # EmptyFilters

FilterFields == {"category", "startDate", "endDate", "minAmount", "maxAmount"}

C17_ClearAppliesEmpty ==
    [][StagedClearFilters =>
          /\ filterInputs' = EmptyFilters
          /\ appliedFilters' = EmptyFilters
          /\ Len(listFetches') = Len(listFetches) + 1
          /\ listFetches'[Len(listFetches')].filters = EmptyFilters
          /\ listFetches'[Len(listFetches')].resp = "pending"
          /\ ~(hasUnappliedChanges')
      ]_vars

\* The fetch of the empty filter is in flight with nothing staged, while the
\* list still shows the shorter result of the filter applied before.
C17_Witness ==
    /\ applyingFilters
    /\ filterInputs = EmptyFilters /\ appliedFilters = EmptyFilters
    /\ Len(listFetches) = 1 /\ listFetches[1].filters = EmptyFilters
    /\ expenses # <<>>
    /\ Len(expenses) < Len(EqUser(store, user))

\* C18: hasUnappliedChanges is true exactly when the staged filter differs from
\* the applied filter in one of the five fields; it is false right after Apply
\* and after Clear, and Apply acts only while it is true.
C18_UnappliedChanges ==
    /\ [](hasUnappliedChanges <=> \E f \in FilterFields : filterInputs[f] # appliedFilters[f])
    /\ [][(applyFilters \/ StagedClearFilters) => ~(hasUnappliedChanges')]_vars
    /\ [][applyFilters => hasUnappliedChanges]_vars

\* A category is applied and staged alike, and a greatest amount is staged on
\* top of it: the filters differ in that one field.
C18_Witness ==
    /\ ~loading /\ hasUnappliedChanges
    /\ appliedFilters = [EmptyFilters EXCEPT !.category = "Travel"]
    /\ filterInputs = [EmptyFilters EXCEPT !.category = "Travel", !.maxAmount = Some(30)]

\* The label of the entry k of a series of n entries that are consecutive days
\* (or months) in chronological order and end at the day (or month) of now.
ConsecutiveLabel(period, n, k) ==
    IF period = "week"
    THEN LET c == CivilFromDays(Today - (n - k)) IN <<c.month, c.day>>
    ELSE LET c   == CivilFromDays(Today)
             idx == c.year * 12 + (c.month - 1) - (n - k)
         IN  <<(idx % 12) + 1, idx \div 12>>

\* C19: the entries of the trend series are consecutive calendar days (or
\* months) in strictly increasing chronological order, and the last entry is
\* the bucket that contains now, also across a year boundary.
C19_ChronologicalToNow ==
    [][\A i \in 1..Len(dashFetches) :
          TrendOkStep(i) =>
            LET period == dashFetches[i].period
                n      == Len(monthlyData')
            IN  /\ n >= 1
                /\ monthlyData'[n].month = ConsecutiveLabel(period, n, n)
                /\ \A k \in 1..n :
                      monthlyData'[k].month = ConsecutiveLabel(period, n, k)]_vars

\* The entries the trend computation does produce are consecutive, in
\* chronological order and end at now's bucket; it produces none for a user
\* without records.
ChronologicalIfNonEmpty ==
    [][\A i \in 1..Len(dashFetches) :
          TrendOkStep(i) =>
            LET period == dashFetches[i].period
                n      == Len(monthlyData')
            IN  /\ n = 0 <=> dashFetches[i].data = <<>>
                /\ \A k \in 1..n :
                      monthlyData'[k].month = ConsecutiveLabel(period, n, k)]_vars

\* C20: the Dashboard does not show its panels while a fetch issued for the
\* view (period expenses, all expenses, trend history, user settings) is
\* unresolved: loading or isLoadingBudget is set as long as one is outstanding.
C20_LoadingUntilAllResolved ==
    (dashFetches # <<>> \/ settingsFetches # <<>>) => (loading \/ isLoadingBudget)

\* The same for the fetches of fetchExpenses alone.
LoadingUntilExpensesResolved == dashFetches # <<>> => (loading \/ isLoadingBudget)


\* The records whose date parses, and those whose date does not.
ValidRows(rows) == SelectSeq(rows, LAMBDA r : r.date # InvalidDate)

InvalidRows(rows) == SelectSeq(rows, LAMBDA r : r.date = InvalidDate)

\* C21: a record whose date does not parse does not stop the Dashboard
\* computation: its amount is in the all-time total, and thisMonth, thisWeek and
\* every trend bucket are what the records with a valid date alone give (it is
\* counted in no bucket).
C21_InvalidDateExcluded ==
    /\ [](\A i \in 1..Len(dashFetches) :
            (dashFetches[i].stage = "trend" /\ dashFetches[i].hasAll) =>
                LET all   == dashFetches[i].allExpenses
                    valid == ValidRows(all)
                IN  /\ dashExpenses.total = SumAmount(valid) + SumAmount(InvalidRows(all))
                    /\ dashExpenses.thisMonth = Summarize(valid).thisMonth
                    /\ dashExpenses.thisWeek = Summarize(valid).thisWeek
                    /\ dashExpenses.thisMonth <= SumAmount(valid)
                    /\ dashExpenses.thisWeek <= SumAmount(valid))
    /\ [][\A i \in 1..Len(dashFetches) :
            (TrendOkStep(i) /\ dashFetches[i].data # <<>>) =>
                LET period == dashFetches[i].period
                    valid  == ValidRows(dashFetches[i].data)
                IN  /\ Len(monthlyData') = WindowLength(period)
                    /\ \A k \in 1..WindowLength(period) :
                          monthlyData'[k].total =
                              IF valid = <<>> THEN 0
                              ELSE TrendData(valid, period)[k].total
                    /\ SumTotal(monthlyData') <= SumAmount(valid)]_vars

\* A load has completed over a table in which the user has a record whose date
\* does not parse and a record of this month: the total counts both, thisMonth
\* only the second, and the trend series has its entries.
C21_Witness ==
    /\ dashFetches = <<>>
    /\ InvalidRows(RowsOf(user)) # <<>>
    /\ dashExpenses.total = SumAmount(RowsOf(user))
    /\ dashExpenses.thisMonth > 0
    /\ dashExpenses.thisMonth < dashExpenses.total
    /\ \E k \in 1..Len(monthlyData) : monthlyData[k].total > 0


\* C24: when a delete of record A and an edit of another record B, both
\* confirmed by the store, overlap, the handler that completes last does not
\* overwrite the other's result: completing the edit of B brings no other
\* record back into the working set, and completing the delete of A removes A
\* and leaves every other record of the working set as it is, edited values
\* included.
C24_OverlappingMutations ==
    [][ /\ \A j \in 1..Len(edits) :
              EditOkStep(j) => (Ids(expenses') \ {edits[j].id}) \subseteq Ids(expenses)
        /\ \A i \in 1..Len(deletes) :
              DeleteOkStep(i) =>
                  /\ deletes[i].id \notin Ids(expenses')
                  /\ \A k \in 1..Len(expenses) :
                        expenses[k].id # deletes[i].id =>
                            \E m \in 1..Len(expenses') : expenses'[m] = expenses[k]
      ]_vars

\* A handler that completes while the working set is still the one it captured
\* leaves the claimed result.
MutationOnCapturedSetAgrees ==
    [][ /\ \A j \in 1..Len(edits) :
              (EditOkStep(j) /\ edits[j].expenses = expenses) =>
                  Ids(expenses') = Ids(expenses)
        /\ \A i \in 1..Len(deletes) :
              (DeleteOkStep(i) /\ deletes[i].expenses = expenses) =>
                  expenses' = SelectSeq(expenses, LAMBDA e : e.id # deletes[i].id)
      ]_vars


\* The summary figure that matches a time period.
SummaryFigure(period) ==
    IF period = "week" THEN dashExpenses.thisWeek ELSE dashExpenses.thisMonth

\* C25: the totals of the category breakdown sum to the summary figure of the
\* selected period computed in the same load: to thisWeek in the week view, to
\* thisMonth in the month view.
C25_BreakdownEqualsPeriodFigure ==
    \A i \in 1..Len(dashFetches) :
        (dashFetches[i].stage = "trend" /\ dashFetches[i].hasAll) =>
            SumTotal(categoryData) = SummaryFigure(dashFetches[i].period)

\* In a browser whose local time is UTC the breakdown and the figure agree.
BreakdownEqualsFigureInUTC == tz = 0 => C25_BreakdownEqualsPeriodFigure


\* The store holds a row for the record.
HasStoredRow(e) == \E r \in 1..Len(store) : store[r].id = e.id /\ store[r].user_id = e.user_id

\* C27: after a successful edit the record in the working set agrees with the
\* record the store holds on description, amount, category and date, whatever
\* was submitted, a description with surrounding whitespace included.
C27_LocalAgreesWithStore ==
    [][\A j \in 1..Len(edits) :
          (EditOkStep(j) /\ Len(edits) = 1 /\ deletes = <<>>) =>
              \A k \in 1..Len(expenses') :
                  (expenses'[k].id = edits[j].id /\ HasStoredRow(expenses'[k])) =>
                      \E r \in 1..Len(store) :
                          /\ store[r].id = expenses'[k].id
                          /\ store[r].user_id = expenses'[k].user_id
                          /\ store[r].description = expenses'[k].description
                          /\ store[r].amount = expenses'[k].amount
                          /\ store[r].category = expenses'[k].category
                          /\ store[r].date = expenses'[k].date]_vars

\* The two copies agree on amount, category and date, and on the description
\* once the local one is trimmed.
LocalAgreesUpToTrim ==
    [][\A j \in 1..Len(edits) :
          (EditOkStep(j) /\ Len(edits) = 1 /\ deletes = <<>>) =>
              \A k \in 1..Len(expenses') :
                  (expenses'[k].id = edits[j].id /\ HasStoredRow(expenses'[k])) =>
                      \E r \in 1..Len(store) :
                          /\ store[r].id = expenses'[k].id
                          /\ store[r].user_id = expenses'[k].user_id
                          /\ store[r].description = trim(expenses'[k].description)
                          /\ store[r].amount = expenses'[k].amount
                          /\ store[r].category = expenses'[k].category
                          /\ store[r].date = expenses'[k].date]_vars


\* C26: whenever no request is in flight and none has failed, every record of
\* the working set satisfies the applied filter, after any sequence of applies,
\* clears and edits: an edit that moves a record outside the applied filter
\* does not leave it in the list.
C26_WorkingSetMatchesFilter ==
    (listFetches = <<>> /\ edits = <<>> /\ deletes = <<>> /\ error = "") =>
        \A k \in 1..Len(expenses) : ClaimMatches(expenses[k], appliedFilters)

\* Right after a fetch has succeeded every record of the working set satisfies
\* the applied filter.
FetchedSetMatchesFilter ==
    [][\A i \in 1..Len(listFetches) :
          (listFetches[i].resp = "ok" /\ listFetches' = RemoveAt(listFetches, i)
              /\ Len(listFetches) = 1) =>
              \A k \in 1..Len(expenses') : ClaimMatches(expenses'[k], appliedFilters)]_vars


\* The store applies the upsert of invocation i.
UpsertOkStep(i) ==
    /\ i \in 1..Len(upserts)
    /\ upserts[i].resp = "pending"
    /\ Len(upserts') = Len(upserts)
    /\ upserts'[i].resp = "ok"

\* The settings rows of a user after the step.
SettingsQueryAfter(uid) == SelectSeq(settings', LAMBDA r : r.user_id = uid)

\* C28: saving a budget changes only the selected period's stored budget: a
\* save in 'week' mode leaves the stored monthly_budget as it was and a save in
\* 'month' mode leaves the stored weekly_budget as it was, whatever the local
\* budgets are, and the user has exactly one settings row afterwards.
C28_SaveChangesOnlySelectedPeriod ==
    [][\A i \in 1..MaxUpserts :
          UpsertOkStep(i) =>
              LET before == SettingsQuery(upserts[i].row.user_id)
                  after == SettingsQueryAfter(upserts[i].row.user_id)
              IN  /\ Len(after) = 1
                  /\ before # <<>> =>
                        /\ upserts[i].period = "week" =>
                              after[1].monthly_budget = before[1].monthly_budget
                        /\ upserts[i].period = "month" =>
                              after[1].weekly_budget = before[1].weekly_budget
      ]_vars

\* What does hold of a save: the user has exactly one settings row afterwards,
\* it holds the entered budget for the selected period, and the rows of other
\* users stay as they are.
SaveWritesSelectedPeriod ==
    [][\A i \in 1..MaxUpserts :
          UpsertOkStep(i) =>
              LET after == SettingsQueryAfter(upserts[i].row.user_id)
              IN  /\ Len(after) = 1
                  /\ upserts[i].period = "week" => after[1].weekly_budget = upserts[i].budget
                  /\ upserts[i].period = "month" => after[1].monthly_budget = upserts[i].budget
                  /\ SettingsQueryAfter(UserB) = SettingsQuery(UserB)
      ]_vars

\* C29: for every budget reached through updateMonthlyBudget or
\* fetchUserSettings and every spent amount, budgetUsage is an integer from 0
\* to 100 and remainingBudget is max(budget - spent, 0), and a budget that
\* updateMonthlyBudget sends to the store is positive.
C29_BudgetFigures ==
    /\ budgetUsage # NaN
    /\ budgetUsage[1] \in 0..100
    /\ remainingBudget >= 0
    /\ remainingBudget >= BudgetLimit - BudgetSpent
    /\ BudgetSpent <= BudgetLimit => remainingBudget = BudgetLimit - BudgetSpent
    /\ \A i \in 1..Len(upserts) : upserts[i].budget > 0

\* What does hold: remainingBudget is max(budget - spent, 0), a budget sent to
\* the store is not negative, and with a positive budget budgetUsage is an
\* integer from 0 to 100.
BudgetFiguresWithPositiveBudget ==
    /\ remainingBudget >= 0
    /\ remainingBudget >= BudgetLimit - BudgetSpent
    /\ BudgetSpent <= BudgetLimit => remainingBudget = BudgetLimit - BudgetSpent
    /\ \A i \in 1..Len(upserts) : upserts[i].budget >= 0
    /\ BudgetLimit > 0 => budgetUsage # NaN /\ budgetUsage[1] \in 0..100

\* budgetUsage is not a number: a budget of 0 with nothing spent.
BudgetUsageNotANumber == budgetUsage # NaN


\* handleSubmit returns with the error of its amount check.
RejectedSubmitStep == error' # error /\ error' = "Please enter a valid amount"

\* C23: no insert and no update is sent to the store with an amount that is
\* zero, negative or not a number, so no stored record has one; a submission
\* rejected by the amount check sends no request and leaves the stored records
\* as they are.
C23_PositiveAmountBeforePersistence ==
    /\ [](/\ \A i \in 1..Len(inserts) : inserts[i].row.amount > 0
          /\ \A j \in 1..Len(edits) :
                edits[j].form.amount # None /\ parseFloat(edits[j].form.amount) > 0
          /\ \A k \in 1..Len(store) : store[k].amount > 0)
    /\ [][RejectedSubmitStep => inserts' = inserts /\ edits' = edits /\ store' = store]_vars

\* A submission of amount 0 has been rejected and no request is in flight.
C23_Witness ==
    /\ error = "Please enter a valid amount"
    /\ formData.amount = Some(0)
    /\ inserts = <<>>

\* A record has been added and a record of the list edited.
AddedAndEdited ==
    /\ \E k \in 1..Len(store) : store[k].date = UTCDay(now)
    /\ \E j \in 1..Len(edits) : edits[j].resp = "ok"


\* The owner ids of the requests a step sends: those of the effect of a page
\* that mounts in the step, ...
SentByMount ==
    IF page' # page
    THEN {dashFetches'[i].uid : i \in 1..Len(dashFetches')}
         \cup {settingsFetches'[i].uid : i \in 1..Len(settingsFetches')}
         \cup {listFetches'[i].uid : i \in 1..Len(listFetches')}
    ELSE {}

\* ... that of the next query of a fetchExpenses invocation of the mounted
\* Dashboard, ...
SentByLoad ==
    {dashFetches[i].uid : i \in {k \in 1..Len(dashFetches) :
        /\ Len(dashFetches') = Len(dashFetches)
        /\ page' = page
        /\ dashFetches[k].resp # "pending"
        /\ dashFetches'[k].resp = "pending"}}

\* ... and that of the next query of an invocation of an unmounted Dashboard.
SentByOrphan ==
    {orphans[i].uid : i \in {k \in 1..Len(orphans) :
        /\ Len(orphans') = Len(orphans)
        /\ orphans[k].resp # "pending"
        /\ orphans'[k].resp = "pending"}}

\* C30: a page nested under /dashboard is mounted only when the auth state is
\* not loading and user is non-null; with loading false and user null the
\* location is /login; and once signOut has completed and user is null no
\* request is sent to the store.
C30_ProtectedPagesNeedSession ==
    /\ [](page # "none" => ~authLoading /\ user # Null)
    /\ []((~authLoading /\ user = Null) => (path = "/login" /\ page = "none"))
    /\ [][user' = Null => (SentByMount \cup SentByLoad \cup SentByOrphan) = {}]_vars

\* What does hold: the guards of the layout, and no page and no invocation of
\* a mounted page sends a request while user is null.
LayoutGuardsSession ==
    /\ [](page # "none" => ~authLoading /\ user # Null)
    /\ []((~authLoading /\ user = Null) => (path = "/login" /\ page = "none"))
    /\ [][user' = Null => (SentByMount \cup SentByLoad) = {}]_vars

\* C22: every request sent to the store carries the id of the user signed in
\* when it is sent, never an absent one, and what the store returns for it are
\* records of that user only.
C22_RequestsOwnedByCurrentUser ==
    /\ [][\A uid \in SentByMount \cup SentByLoad \cup SentByOrphan :
             uid # Null /\ uid = user']_vars
    /\ [](\A i \in 1..Len(dashFetches) : \A k \in 1..Len(dashFetches[i].data) :
             dashFetches[i].data[k].user_id = user)
    /\ [](\A i \in 1..Len(listFetches) : \A k \in 1..Len(listFetches[i].data) :
             listFetches[i].data[k].user_id = user)

\* What does hold: every request carries an owner id, the one of the user signed
\* in when its invocation started; the store returns only records of that owner,
\* and the pages show only records of the user signed in.
RequestsOwnedByInvokingUser ==
    /\ [][\A uid \in SentByMount \cup SentByLoad : uid # Null /\ uid = user']_vars
    /\ [][\A uid \in SentByOrphan : uid # Null]_vars
    /\ [](\A i \in 1..Len(dashFetches) : \A k \in 1..Len(dashFetches[i].data) :
             dashFetches[i].data[k].user_id = user)
    /\ [](\A i \in 1..Len(listFetches) : \A k \in 1..Len(listFetches[i].data) :
             listFetches[i].data[k].user_id = user)
    /\ [](\A i \in 1..Len(orphans) : \A k \in 1..Len(orphans[i].data) :
             orphans[i].data[k].user_id = orphans[i].uid)
    /\ [](\A k \in 1..Len(expenses) : expenses[k].user_id = user)
    /\ [](\A k \in 1..Len(recentExpenses) : recentExpenses[k].user_id = user)

====
